---- MODULE Spec2Model ----
(***************************************************************************)
(* Brevy analytics pipeline: the Redis Pub/Sub click consumer              *)
(* (services/analytics/app/consumers/click_consumer.py), the batching      *)
(* click storage service (services/analytics/app/services/click_storage.py)*)
(* and the stats aggregator                                                *)
(* (services/analytics/app/aggregators/stats_aggregator.py) as state       *)
(* machines.  Each coroutine is modelled by its position (the await it is  *)
(* suspended at); one action is one run of a coroutine from one suspension *)
(* point to the next, which is atomic under asyncio.                       *)
(***************************************************************************)
EXTENDS Integers, Sequences, FiniteSets, TLC

\* ------------------------------------------------------------------ bounds
\* Longest handler list the model registers.
MaxHandlers == 2
\* Number of data messages the broker delivers in one behaviour.
MaxMsgs == 3
\* Number of start() calls of the consumer in one behaviour.
MaxStarts == 2

\* The handler functions that can be registered.
HandlerIds == {"h1", "h2"}

VARIABLES
    c_running,           \* ClickEventConsumer._running
    c_client,            \* ClickEventConsumer._client: "none" | "open"
    c_pubsub,            \* ClickEventConsumer._pubsub: "none" | "subscribed"
    c_task,              \* ClickEventConsumer._task and where its coroutine is
    c_cancel,            \* Task.cancel() was called on a task that has not finished
    c_error,             \* listen() raised a transport error in the current task
    c_handlers,          \* ClickEventConsumer._handlers
    c_events_processed,  \* ClickEventConsumer._events_processed
    c_events_failed,     \* ClickEventConsumer._events_failed
    c_cur,               \* payload of the data message handed to _process_message last
    c_invoked,           \* handler calls made for the message being processed
    c_last,              \* how the processing of the latest finished data message ended
    c_delivered,         \* data messages handed to _process_message so far
    c_starts,            \* subscriptions made by start() so far
    c_owner,             \* the owning coroutine: "idle" | "await_task" (inside stop())
    c_stop_result        \* how the latest stop() call ended

cvars == <<c_running, c_client, c_pubsub, c_task, c_cancel, c_error, c_handlers,
           c_events_processed, c_events_failed, c_cur, c_invoked, c_last,
           c_delivered, c_starts, c_owner, c_stop_result>>

\* ----------------------------------------------------------- wire payloads
\* A payload as published on the channel: whether the text is JSON at all,
\* and, when it is, what it holds for the two required fields of ClickEvent.
Payloads ==
    {[json |-> FALSE, link_id |-> "absent", short_code |-> "absent"]} \cup
    [json : {TRUE}, link_id : {"absent", "notuuid", "uuid"},
     short_code : {"absent", "notstr", "str"}]

\* What pubsub.listen() yields: subscription confirmations and data messages.
Messages ==
    {[type |-> "subscribe", data |-> [json |-> FALSE, link_id |-> "absent",
                                      short_code |-> "absent"]]} \cup
    [type : {"message"}, data : Payloads]

\* json.loads(data): succeeds on JSON text, raises JSONDecodeError otherwise.
JsonLoads(data) == IF data.json THEN "dict" ELSE "JSONDecodeError"

\* ClickEvent.model_validate: link_id (UUID) and short_code (str) are required,
\* every other field has a default.
ModelValidateNoShortCode(data) ==
    IF data.link_id = "uuid" THEN "event" ELSE "ValidationError"
ModelValidate(data) ==
    IF data.link_id = "uuid" /\ data.short_code = "str"
    THEN "event" ELSE "ValidationError"

\* The outcome of the decoding steps of _process_message.
Decode(data) ==
    IF JsonLoads(data) = "JSONDecodeError" THEN "invalid_json"
    ELSE IF ModelValidate(data) = "ValidationError" THEN "invalid_schema"
    ELSE "valid"

NoPayload == [json |-> FALSE, link_id |-> "none", short_code |-> "none"]

\* c_last: n is the number of the message (its c_delivered), result is
\* "processed" | "failed" | "cancelled", invoked the handler calls made for it
\* and handlers the handler list when its processing ended.
NoLast == [n |-> 0, result |-> "none", invoked |-> <<>>, handlers |-> <<>>]

HandlerIdsOf(calls) == [i \in 1..Len(calls) |-> calls[i].h]

InitConsumer ==
    /\ c_running = FALSE
    /\ c_client = "none"
    /\ c_pubsub = "none"
    /\ c_task = "none"
    /\ c_cancel = FALSE
    /\ c_error = FALSE
    /\ c_handlers = <<>>
    /\ c_events_processed = 0
    /\ c_events_failed = 0
    /\ c_cur = NoPayload
    /\ c_invoked = <<>>
    /\ c_last = NoLast
    /\ c_delivered = 0
    /\ c_starts = 0
    /\ c_owner = "idle"
    /\ c_stop_result = "none"

\* register_handler: append to the ordered list.
RegisterHandler(h) ==
    /\ Len(c_handlers) < MaxHandlers
    /\ c_handlers' = Append(c_handlers, h)
    /\ UNCHANGED <<c_running, c_client, c_pubsub, c_task, c_cancel, c_error,
                   c_events_processed, c_events_failed, c_cur, c_invoked, c_last,
                   c_delivered, c_starts, c_owner, c_stop_result>>

\* (below) start() without its `if self._running: return`
StartAlways ==
    /\ c_owner = "idle"
    /\ c_starts < MaxStarts
    /\ c_client' = "open"
    /\ c_pubsub' = "subscribed"
    /\ c_running' = TRUE
    /\ c_task' = "listen"
    /\ c_cancel' = FALSE
    /\ c_error' = FALSE
    /\ c_invoked' = <<>>
    /\ c_starts' = c_starts + 1
    /\ c_stop_result' = "none"
    /\ UNCHANGED <<c_handlers, c_events_processed, c_events_failed,
                   c_cur, c_last, c_delivered, c_owner>>

\* start(): a no-op on a running consumer, else subscribe and create the task.
Start ==
    /\ c_owner = "idle"
    /\ IF c_running
       THEN UNCHANGED cvars
       ELSE /\ c_starts < MaxStarts
            /\ c_client' = "open"
            /\ c_pubsub' = "subscribed"
            /\ c_running' = TRUE
            /\ c_task' = "listen"
            /\ c_cancel' = FALSE
            /\ c_error' = FALSE
            /\ c_invoked' = <<>>
            /\ c_starts' = c_starts + 1
            /\ c_stop_result' = "none"
            /\ UNCHANGED <<c_handlers, c_events_processed, c_events_failed,
                           c_cur, c_last, c_delivered, c_owner>>

\* The index of the handler the loop of _process_message goes to after the
\* handler at index i ended with `out` ("ok" or "raise"): the except clause
\* inside the loop only logs.
NextHandlerAbortOnRaise(i, out) == IF out = "raise" THEN MaxHandlers + 1 ELSE i + 1
NextHandler(i, out) == i + 1

\* The end of _process_message for a valid event, after the handler loop.
FinishValidCountsFailure(calls) ==
    /\ IF \E i \in 1..Len(calls) : calls[i].out = "raise"
       THEN /\ c_events_failed' = c_events_failed + 1
            /\ UNCHANGED c_events_processed
       ELSE /\ c_events_processed' = c_events_processed + 1
            /\ UNCHANGED c_events_failed
    /\ c_last' = [n |-> c_delivered', result |-> "processed",
                  invoked |-> calls, handlers |-> c_handlers]
    /\ c_invoked' = <<>>
    /\ c_task' = "listen"
FinishValid(calls) ==
    /\ c_events_processed' = c_events_processed + 1
    /\ c_last' = [n |-> c_delivered', result |-> "processed",
                  invoked |-> calls, handlers |-> c_handlers]
    /\ c_invoked' = <<>>
    /\ c_task' = "listen"
    /\ UNCHANGED c_events_failed

\* The loop of _process_message from index i on: call the handler at i and
\* suspend in it, or leave the loop when the list is exhausted.  (First, the
\* same with every remaining handler started at once.)
CallAllAtOnce(i, calls) ==
    IF i <= Len(c_handlers)
    THEN /\ c_invoked' = calls \o [k \in 1..(Len(c_handlers) - i + 1) |->
                                      [h |-> c_handlers[i + k - 1], out |-> "pending"]]
         /\ c_task' = "handler"
         /\ UNCHANGED <<c_events_processed, c_events_failed, c_last>>
    ELSE FinishValid(calls)
CallFrom(i, calls) ==
    IF i <= Len(c_handlers)
    THEN /\ c_invoked' = Append(calls, [h |-> c_handlers[i], out |-> "pending"])
         /\ c_task' = "handler"
         /\ UNCHANGED <<c_events_processed, c_events_failed, c_last>>
    ELSE FinishValid(calls)

\* The early returns of _process_message for an undecodable payload.
RejectMessage ==
    /\ c_events_failed' = c_events_failed + 1
    /\ c_last' = [n |-> c_delivered', result |-> "failed",
                  invoked |-> <<>>, handlers |-> c_handlers]
    /\ UNCHANGED <<c_events_processed, c_invoked, c_task>>

\* _process_message(data) up to its first suspension.
ProcessMessage(data) ==
    /\ c_delivered < MaxMsgs
    /\ c_delivered' = c_delivered + 1
    /\ c_cur' = data
    /\ IF Decode(data) = "valid" THEN CallFrom(1, <<>>) ELSE RejectMessage

\* One iteration of `async for message in self._pubsub.listen()`.
Deliver(m) ==
    /\ c_task = "listen"
    /\ ~c_cancel
    /\ c_pubsub = "subscribed"
    /\ IF ~c_running
       THEN /\ c_task' = "returned"
            /\ UNCHANGED <<c_events_processed, c_events_failed, c_cur, c_invoked,
                           c_last, c_delivered>>
       ELSE IF m.type # "message"
       THEN UNCHANGED <<c_task, c_events_processed, c_events_failed, c_cur,
                        c_invoked, c_last, c_delivered>>
       ELSE ProcessMessage(m.data)
    /\ UNCHANGED <<c_running, c_client, c_pubsub, c_cancel, c_error, c_handlers, c_starts,
                   c_owner, c_stop_result>>

\* The handler the loop is suspended in returns ("ok") or raises an Exception
\* ("raise"); the loop goes on in the same step.
HandlerEnds(out) ==
    /\ c_task = "handler"
    /\ ~c_cancel
    /\ UNCHANGED <<c_running, c_client, c_pubsub, c_cancel, c_error, c_handlers,
                   c_cur, c_delivered, c_starts, c_owner, c_stop_result>>
    /\ LET i == Len(c_invoked)
           calls == [c_invoked EXCEPT ![i].out = out]
       IN CallFrom(NextHandler(i, out), calls)

\* What becomes of the loop task when listen() raises redis.RedisError: the
\* except clauses of _consume_loop log and re-raise.
TransportErrorSwallowed == "listen"
TransportErrorOutcome == "failed"

\* pubsub.listen() raises a transport error while the loop waits for a message.
TransportError ==
    /\ c_task = "listen"
    /\ ~c_cancel
    /\ c_task' = TransportErrorOutcome
    /\ c_error' = TRUE
    /\ UNCHANGED <<c_running, c_client, c_pubsub, c_cancel, c_handlers,
                   c_events_processed, c_events_failed, c_cur, c_invoked, c_last,
                   c_delivered, c_starts, c_owner, c_stop_result>>

\* stop() up to `await self._task`: a no-op on a consumer that is not running,
\* else clear _running and cancel the task.
StopBegin ==
    /\ c_owner = "idle"
    /\ IF ~c_running
       THEN UNCHANGED cvars
       ELSE /\ c_running' = FALSE
            /\ c_cancel' = (c_task \in {"listen", "handler"})
            /\ c_owner' = "await_task"
            /\ c_stop_result' = "none"
            /\ UNCHANGED <<c_client, c_pubsub, c_task, c_error, c_handlers,
                           c_events_processed, c_events_failed, c_cur, c_invoked,
                           c_last, c_delivered, c_starts>>

\* What a cancelled task does with the message it is processing: CancelledError
\* is no Exception, so neither except clause of _process_message catches it and
\* the message is abandoned where it is.
OnCancelInHandler ==
    /\ c_last' = [n |-> c_delivered, result |-> "cancelled",
                  invoked |-> [c_invoked EXCEPT ![Len(c_invoked)].out = "cancelled"],
                  handlers |-> c_handlers]
    /\ c_invoked' = <<>>

\* CancelledError is thrown into the loop task at the await it is suspended at
\* (listen() or a handler) and propagates out of _consume_loop.
TaskCancelled ==
    /\ c_cancel
    /\ c_task \in {"listen", "handler"}
    /\ IF c_task = "handler"
       THEN OnCancelInHandler
       ELSE UNCHANGED <<c_last, c_invoked>>
    /\ c_task' = "cancelled"
    /\ c_cancel' = FALSE
    /\ UNCHANGED <<c_running, c_client, c_pubsub, c_error, c_handlers,
                   c_events_processed, c_events_failed, c_cur, c_delivered,
                   c_starts, c_owner, c_stop_result>>

\* stop() from `await self._task` on: CancelledError is swallowed and the
\* connections are closed; any other error of the task is raised to the caller
\* of stop() before the cleanup.
StopFinish ==
    /\ c_owner = "await_task"
    /\ c_task \in {"cancelled", "returned", "failed"}
    /\ c_owner' = "idle"
    /\ IF c_task = "failed"
       THEN /\ c_stop_result' = "raised"
            /\ UNCHANGED <<c_task, c_pubsub, c_client>>
       ELSE /\ c_stop_result' = "returned"
            /\ c_task' = "none"
            /\ c_pubsub' = "none"
            /\ c_client' = "none"
    /\ UNCHANGED <<c_running, c_cancel, c_error, c_handlers, c_events_processed,
                   c_events_failed, c_cur, c_invoked, c_last, c_delivered, c_starts>>

\* ===================================================================
\* ClickStorageService (batch mode)
\* ===================================================================
\* Number of store_click calls in one behaviour.
MaxEvents == 3
\* ClickStorageService._batch_size as configured in the model.
BatchSize == 2
\* Number of bulk inserts the raw store refuses in one behaviour.
MaxFailures == 1

\* The coroutines that call store_click (the consumer loop, which awaits each
\* handler call, is the only one), the flush timer task and stop().
Callers == {"c1"}
Actors == Callers \cup {"timer", "stop"}

\* Client addresses of an event: absent, a private one and a public one.
IPs == {"none", "10.0.0.1", "8.8.8.8"}

VARIABLES
    s_running,           \* ClickStorageService._running
    s_cancel,            \* Task.cancel() was called on the flush task, not yet delivered
    s_pc,                \* where each coroutine is suspended
    s_lock,              \* ClickStorageService._buffer_lock: "free" or its holder
    s_buffer,            \* ClickStorageService._buffer
    s_pending,           \* the PENDING_CLICKS gauge, as set_pending_clicks left it
    s_snap,              \* events_to_flush of each coroutine inside _flush_buffer_locked
    s_data,              \* click_data of each store_click call in progress
    s_clicks_stored,     \* ClickStorageService._clicks_stored
    s_batches_flushed,   \* ClickStorageService._batches_flushed
    raw_store,           \* the rows of the clicks table, in insertion order
    s_events,            \* the events given to store_click so far
    s_accepted,          \* ids of the records store_click has appended to the buffer
    s_failures,          \* bulk inserts that have failed so far
    s_last_failed,       \* the snapshot of the latest failed bulk insert
    s_stop_report        \* what the latest stop() left behind when it returned

svars == <<s_running, s_cancel, s_pc, s_lock, s_buffer, s_pending, s_snap, s_data,
           s_clicks_stored, s_batches_flushed, raw_store, s_events, s_accepted,
           s_failures, s_last_failed, s_stop_report>>

\* GeoLocation(): both fields None.
EmptyLoc == [country |-> "None", city |-> "None"]
\* What the lookup backend answers for a public address it knows.
BackendLoc == [country |-> "US", city |-> "Mountain View"]

\* private_prefixes of GeoIPService._is_private_ip.
PrivatePrefixes ==
    {"10.", "172.16.", "172.17.", "172.18.", "172.19.", "172.20.", "172.21.",
     "172.22.", "172.23.", "172.24.", "172.25.", "172.26.", "172.27.", "172.28.",
     "172.29.", "172.30.", "172.31.", "192.168.", "127.", "::1", "fe80:"}

\* The texts an address text starts with, up to and including each of its
\* separators: what str.startswith can match a prefix of the list against.
LeadingTexts(ip) ==
    CASE ip = "10.0.0.1" -> {"10.", "10.0.", "10.0.0."}
      [] ip = "8.8.8.8" -> {"8.", "8.8.", "8.8.8."}
      [] ip = "fd00::1" -> {"fd00:", "fd00::"}
      [] OTHER -> {}

\* GeoIPService._is_private_ip: a prefix test on the address text.
IsPrivateIp(ip) == LeadingTexts(ip) \cap PrivatePrefixes # {}

\* GeoIPService.lookup returns without a backend call for a missing or private
\* address.
LookupShortCircuits(ip) == ip = "none" \/ IsPrivateIp(ip)

\* click_data as store_click builds it; id stands for the fields copied
\* verbatim from the event (link_id, short_code, clicked_at, referrer,
\* user_agent).
ClickData(event, loc) ==
    [id |-> event.id, ip_address |-> event.ip_address,
     country |-> loc.country, city |-> loc.city]

NoData == [id |-> 0, ip_address |-> "none", country |-> "None", city |-> "None"]
NoReport == [returned |-> FALSE, buffer |-> <<>>, missing |-> {}, final |-> "none"]

RowIds(rows) == {rows[i].id : i \in 1..Len(rows)}

InitService ==
    /\ s_running = FALSE
    /\ s_cancel = FALSE
    /\ s_pc = [a \in Actors |-> IF a = "timer" THEN "none" ELSE "idle"]
    /\ s_lock = "free"
    /\ s_buffer = <<>>
    /\ s_pending = 0
    /\ s_snap = [a \in Actors |-> <<>>]
    /\ s_data = [c \in Callers |-> NoData]
    /\ s_clicks_stored = 0
    /\ s_batches_flushed = 0
    /\ s_events = <<>>
    /\ s_accepted = {}
    /\ s_failures = 0
    /\ s_last_failed = <<>>
    /\ s_stop_report = NoReport

\* asyncio.Lock.acquire succeeds at once for a waiter that is woken, and for a
\* newcomer only when the lock is free and nobody waits for it.  (First, the
\* same without a lock around the buffer.)
NoBufferLock(a) == TRUE
LockAvailable(a) ==
    /\ s_lock = "free"
    /\ s_pc[a] = "wait_lock" \/ \A b \in Actors : s_pc[b] # "wait_lock"

\* Where a coroutine goes when its flush is over: store_click and stop()
\* return, the timer loop tests _running and sleeps again.
AfterFlush(a) ==
    IF a = "timer" THEN (IF s_running THEN "sleep" ELSE "done") ELSE "idle"

\* The size trigger of _add_to_buffer.
SizeTriggeredOffByOne(buf) == Len(buf) > BatchSize
SizeTriggered(buf) == Len(buf) >= BatchSize

\* self._buffer after events_to_flush was copied from it: buffer.clear().
BufferNotCleared(buf) == buf
BufferAfterSnapshot(buf) == <<>>

\* The holder of the buffer lock while coroutine a awaits _batch_insert: the
\* insert is awaited inside `async with self._buffer_lock`.
LockReleasedForInsert(a) == "free"
LockWhileInserting(a) == a

\* The gauge after the except clause of _flush_buffer_locked has put the
\* batch back: set_pending_clicks(len(self._buffer)).  (First, the gauge left
\* at the 0 it was set to when the batch was taken.)
PendingLeftAtZero(buf) == 0
PendingAfterFailure(buf) == Len(buf)

\* The except clause of _flush_buffer_locked: buffer.extend(events_to_flush).
DropOnFailure(buf, snap) == buf
RebufferOnFailure(buf, snap) == buf \o snap

\* (below) _flush_buffer_locked without its `if not self._buffer: return`
FlushLockedAlways(a, buf, pc) ==
    /\ s_snap' = [s_snap EXCEPT ![a] = buf]
    /\ s_buffer' = <<>>
    /\ s_pending' = 0
    /\ s_lock' = a
    /\ s_pc' = [pc EXCEPT ![a] = "insert"]

\* _flush_buffer_locked by coroutine a, which holds the lock, on buffer buf, up
\* to the await of _batch_insert; pc is s_pc as changed so far in this step.
FlushLocked(a, buf, pc) ==
    IF buf = <<>>
    THEN /\ s_buffer' = buf
         /\ s_lock' = "free"
         /\ s_pc' = [pc EXCEPT ![a] = AfterFlush(a)]
         /\ UNCHANGED <<s_snap, s_pending>>
    ELSE /\ s_snap' = [s_snap EXCEPT ![a] = buf]
         /\ s_buffer' = BufferAfterSnapshot(buf)
         /\ s_pending' = 0
         /\ s_lock' = LockWhileInserting(a)
         /\ s_pc' = [pc EXCEPT ![a] = "insert"]

\* _add_to_buffer by caller c: take the lock or wait for it, append, and flush
\* inline when the size trigger fires.
AddToBuffer(c, data) ==
    IF LockAvailable(c)
    THEN /\ s_accepted' = s_accepted \cup {data.id}
         /\ s_data' = [s_data EXCEPT ![c] = NoData]
         /\ LET buf == Append(s_buffer, data)
            IN IF SizeTriggered(buf)
               THEN FlushLocked(c, buf, s_pc)
               ELSE /\ s_buffer' = buf
                    /\ s_pending' = Len(buf)
                    /\ s_lock' = "free"
                    /\ s_pc' = [s_pc EXCEPT ![c] = "idle"]
                    /\ UNCHANGED s_snap
    ELSE /\ s_pc' = [s_pc EXCEPT ![c] = "wait_lock"]
         /\ s_data' = [s_data EXCEPT ![c] = data]
         /\ UNCHANGED <<s_accepted, s_buffer, s_pending, s_lock, s_snap>>

\* _flush_buffer by the timer or stop(): take the lock or wait for it, flush.
FlushBuffer(a, pc) ==
    IF LockAvailable(a)
    THEN FlushLocked(a, s_buffer, pc)
    ELSE /\ s_pc' = [pc EXCEPT ![a] = "wait_lock"]
         /\ UNCHANGED <<s_buffer, s_pending, s_lock, s_snap>>

\* What stop() leaves behind when it returns in this step.
ReportIfStopReturns(a, final) ==
    s_stop_report' =
        IF a = "stop" /\ s_pc'["stop"] = "idle"
        THEN [returned |-> TRUE, buffer |-> s_buffer',
              missing |-> s_accepted' \ RowIds(raw_store'), final |-> final]
        ELSE s_stop_report

\* store_click(event) up to its first suspension: the lookup, which needs the
\* backend only for a public address, then _add_to_buffer.
StoreClick(c, ip) ==
    /\ s_pc[c] = "idle"
    /\ Len(s_events) < MaxEvents
    /\ LET event == [id |-> Len(s_events) + 1, ip_address |-> ip]
       IN /\ s_events' = Append(s_events, event)
          /\ IF LookupShortCircuits(ip)
             THEN AddToBuffer(c, ClickData(event, EmptyLoc))
             ELSE /\ s_pc' = [s_pc EXCEPT ![c] = "lookup"]
                  /\ s_data' = [s_data EXCEPT ![c] = ClickData(event, EmptyLoc)]
                  /\ UNCHANGED <<s_accepted, s_buffer, s_pending, s_lock, s_snap>>
    /\ UNCHANGED <<s_running, s_cancel, s_clicks_stored, s_batches_flushed,
                   raw_store, s_failures, s_last_failed, s_stop_report>>

\* The backend call of lookup returns: the location, or empty when it failed.
LookupReturns(c, loc) ==
    /\ s_pc[c] = "lookup"
    /\ AddToBuffer(c, [s_data[c] EXCEPT !.country = loc.country, !.city = loc.city])
    /\ UNCHANGED <<s_running, s_cancel, s_clicks_stored, s_batches_flushed,
                   raw_store, s_events, s_failures, s_last_failed, s_stop_report>>

\* How a backend call of lookup may end: the address is found, it is not
\* (ip-api answers a status other than success), or the call raises (the
\* reader's city(), the HTTP request, its timeout or the decoding).
BackendOutcomes == {"found", "not_found", "error"}

\* What lookup returns after the backend call: the except clauses of
\* _lookup_geoip2 and _lookup_ip_api return GeoLocation().
LookupResult(out) == IF out = "found" THEN BackendLoc ELSE EmptyLoc

\* The flush timer's sleep ends: _flush_buffer.
TimerFire ==
    /\ s_pc["timer"] = "sleep"
    /\ ~s_cancel
    /\ FlushBuffer("timer", s_pc)
    /\ UNCHANGED <<s_running, s_cancel, s_data, s_clicks_stored, s_batches_flushed,
                   raw_store, s_events, s_accepted, s_failures, s_last_failed,
                   s_stop_report>>

\* A coroutine waiting for the buffer lock gets it.
LockGranted(a) ==
    /\ s_pc[a] = "wait_lock"
    /\ s_lock = "free"
    /\ a = "timer" => ~s_cancel
    /\ UNCHANGED <<s_running, s_cancel, s_clicks_stored, s_batches_flushed,
                   raw_store, s_events, s_failures, s_last_failed>>
    /\ IF a \in Callers
       THEN AddToBuffer(a, s_data[a])
       ELSE FlushBuffer(a, s_pc) /\ UNCHANGED <<s_data, s_accepted>>
    /\ ReportIfStopReturns(a, "empty")

\* The clicks table after _batch_insert(clicks) has committed: one INSERT of
\* the rows, no other statement.
BatchReplace(store, clicks) == clicks
BatchInsert(store, clicks) == store \o clicks

\* _batch_insert of coroutine a ends: committed (ok) or raised an Exception.
InsertEnds(a, ok) ==
    /\ s_pc[a] = "insert"
    /\ a = "timer" => ~s_cancel
    /\ IF ok
       THEN /\ raw_store' = BatchInsert(raw_store, s_snap[a])
            /\ s_clicks_stored' = s_clicks_stored + Len(s_snap[a])
            /\ s_batches_flushed' = s_batches_flushed + 1
            /\ UNCHANGED <<s_buffer, s_pending, s_failures, s_last_failed>>
       ELSE /\ s_failures < MaxFailures
            /\ s_failures' = s_failures + 1
            /\ s_last_failed' = s_snap[a]
            /\ s_buffer' = RebufferOnFailure(s_buffer, s_snap[a])
            /\ s_pending' = PendingAfterFailure(s_buffer')
            /\ UNCHANGED <<raw_store, s_clicks_stored, s_batches_flushed>>
    /\ s_snap' = [s_snap EXCEPT ![a] = <<>>]
    /\ s_lock' = "free"
    /\ s_pc' = [s_pc EXCEPT ![a] = AfterFlush(a)]
    /\ UNCHANGED <<s_running, s_cancel, s_data, s_events, s_accepted>>
    /\ ReportIfStopReturns(a, IF ok THEN "ok" ELSE "failed")

\* start(): a no-op on a running service, else create the flush timer task.
StorageStart ==
    /\ s_pc["stop"] = "idle"
    /\ IF s_running
       THEN UNCHANGED svars
       ELSE /\ s_running' = TRUE
            /\ s_pc' = [s_pc EXCEPT !["timer"] = "sleep"]
            /\ s_stop_report' = NoReport
            /\ UNCHANGED <<s_cancel, s_lock, s_buffer, s_pending, s_snap, s_data,
                           s_clicks_stored, s_batches_flushed, raw_store, s_events,
                           s_accepted, s_failures, s_last_failed>>

\* stop() up to `await self._flush_task`.
StorageStopBegin ==
    /\ s_pc["stop"] = "idle"
    /\ IF ~s_running
       THEN UNCHANGED svars
       ELSE /\ s_running' = FALSE
            /\ s_cancel' = (s_pc["timer"] \in {"sleep", "wait_lock", "insert"})
            /\ s_pc' = [s_pc EXCEPT !["stop"] = "await_task"]
            /\ s_stop_report' = NoReport
            /\ UNCHANGED <<s_lock, s_buffer, s_pending, s_snap, s_data, s_clicks_stored,
                           s_batches_flushed, raw_store, s_events, s_accepted,
                           s_failures, s_last_failed>>

\* CancelledError is thrown into the flush task at the await it is suspended
\* at.  Inside _batch_insert it is no Exception: the except clause of
\* _flush_buffer_locked does not run, events_to_flush is dropped with the
\* frame, the lock is released by `async with` and _flush_loop swallows the
\* error.  Whether the interrupted statement reached the database is not the
\* client's to decide: both outcomes are possible.
TimerCancelled(committed) ==
    /\ s_cancel
    /\ s_pc["timer"] \in {"sleep", "wait_lock", "insert"}
    /\ IF s_pc["timer"] = "insert"
       THEN /\ raw_store' = IF committed THEN BatchInsert(raw_store, s_snap["timer"])
                            ELSE raw_store
            /\ s_snap' = [s_snap EXCEPT !["timer"] = <<>>]
            /\ s_lock' = IF s_lock = "timer" THEN "free" ELSE s_lock
       ELSE /\ ~committed
            /\ UNCHANGED <<raw_store, s_snap, s_lock>>
    /\ s_pc' = [s_pc EXCEPT !["timer"] = "done"]
    /\ s_cancel' = FALSE
    /\ UNCHANGED <<s_running, s_buffer, s_pending, s_data, s_clicks_stored, s_batches_flushed,
                   s_events, s_accepted, s_failures, s_last_failed, s_stop_report>>

\* CancelledError is thrown into the store_click call of caller c, whose task
\* was cancelled, at the await it is suspended at: the lookup's request, the
\* acquire of the lock, or _batch_insert, where the except clause of
\* _flush_buffer_locked does not run, events_to_flush is dropped with the frame
\* and `async with` releases the lock.  The interrupted statement has reached
\* the database or not.
CallerCancelled(c, committed) ==
    /\ s_pc[c] \in {"lookup", "wait_lock", "insert"}
    /\ IF s_pc[c] = "insert"
       THEN /\ raw_store' = IF committed THEN BatchInsert(raw_store, s_snap[c])
                            ELSE raw_store
            /\ s_snap' = [s_snap EXCEPT ![c] = <<>>]
            /\ s_lock' = "free"
       ELSE /\ ~committed
            /\ UNCHANGED <<raw_store, s_snap, s_lock>>
    /\ s_pc' = [s_pc EXCEPT ![c] = "idle"]
    /\ s_data' = [s_data EXCEPT ![c] = NoData]
    /\ UNCHANGED <<s_running, s_cancel, s_buffer, s_pending, s_clicks_stored,
                   s_batches_flushed, s_events, s_accepted, s_failures,
                   s_last_failed, s_stop_report>>

\* stop() after the flush task has ended: drop the task, then _flush_buffer.
StorageStopFlush ==
    /\ s_pc["stop"] = "await_task"
    /\ s_pc["timer"] = "done"
    /\ UNCHANGED <<s_running, s_cancel, s_data, s_clicks_stored, s_batches_flushed,
                   raw_store, s_events, s_accepted, s_failures, s_last_failed>>
    /\ FlushBuffer("stop", [s_pc EXCEPT !["timer"] = "none"])
    /\ ReportIfStopReturns("stop", "empty")

\* ---- lookups observed
\* The addresses store_click is given when the lookup itself is followed: the
\* ones above and an IPv6 unique local address (RFC 4193).
GeoIPs == IPs \cup {"fd00::1"}

VARIABLES
    g_geo,              \* history: the address of the latest lookup and how its
                        \* backend call ended ("none" while none has)
    g_late              \* history: the ids of the clicks committed when their
                        \* hour was already older than the hourly window

gvars == <<g_geo, g_late>>

NoLookup == [ip |-> "none", out |-> "none"]

InitGeo == g_geo = NoLookup /\ g_late = {}

\* ---- the owner of the components
\* main.py, lifespan: the coroutine that starts the components, yields to the
\* application and stops them.
VARIABLES
    l_pc                \* where lifespan is: its phase, and how many of the
                        \* phase's calls it has made

lvars == <<l_pc>>

InitLifespan == l_pc = [phase |-> "startup", i |-> 0]

\* ------------------------------------------------------------ process crash
\* How many times the process is killed in a run.
MaxCrashes == 1

VARIABLES
    s_crashes,          \* history: how many times the process was killed
    s_lost              \* history: ids of the records buffered when it was killed

kvars == <<s_crashes, s_lost>>

InitCrash ==
    /\ s_crashes = 0
    /\ s_lost = {}

\* self._buffer of the ClickStorageService built by the restarted process:
\* __init__ starts from an empty list, nothing is read back from disk.
BufferSurvivesRestart(buf) == buf
BufferAfterRestart(buf) == <<>>

\* The process is killed without stop(), while records are buffered or a bulk
\* insert is in flight, and started again: every attribute of the service is
\* what __init__ makes it, the coroutines are gone with the event loop, and
\* the clicks table is what the database had committed.  A bulk insert that
\* was in flight has committed or not, as the database decides.
Crash(committed) ==
    /\ s_crashes < MaxCrashes
    /\ s_buffer # <<>> \/ \E a \in Actors : s_pc[a] = "insert"
    /\ s_crashes' = s_crashes + 1
    /\ s_lost' = s_lost \cup RowIds(s_buffer)
    /\ IF \E a \in Actors : s_pc[a] = "insert"
       THEN LET a == CHOOSE b \in Actors : s_pc[b] = "insert"
            IN raw_store' = IF committed THEN BatchInsert(raw_store, s_snap[a])
                            ELSE raw_store
       ELSE ~committed /\ UNCHANGED raw_store
    /\ s_buffer' = BufferAfterRestart(s_buffer)
    /\ s_pending' = 0
    /\ s_running' = FALSE
    /\ s_cancel' = FALSE
    /\ s_pc' = [a \in Actors |-> IF a = "timer" THEN "none" ELSE "idle"]
    /\ s_lock' = "free"
    /\ s_snap' = [a \in Actors |-> <<>>]
    /\ s_data' = [c \in Callers |-> NoData]
    /\ s_clicks_stored' = 0
    /\ s_batches_flushed' = 0
    /\ s_last_failed' = <<>>
    /\ s_stop_report' = NoReport
    /\ UNCHANGED <<s_events, s_accepted, s_failures>>

\* ------------------------------------------------------------ stats aggregator
\* services/analytics/app/aggregators/stats_aggregator.py.  Times are minutes
\* since an epoch that starts a day; the clicks table is raw_store, whose rows
\* here carry the columns the aggregation queries read.

\* Rows in the clicks table.
MaxClicks == 2
\* Completed runs counted per job.
MaxRuns == 2
\* settings.aggregation_top_n, the length limit of the top lists.
TopN == 1

\* The defaults of aggregate_hourly(hours_back) and aggregate_daily(days_back).
HoursBack == 2
DaysBack == 2

Links == {"L1", "L2"}

\* The instants at which a run may read the clock: day 3 at 01:30, and day 6
\* at 00:10, when every click below is older than both windows.
Nows == {4410, 8650}

\* The clicks that may be committed.  720 is day 0 at 12:00; 4260 and 4300 are
\* day 2 at 23:00 and 23:40, the same hour; 4400 is day 3 at 01:20.
ClickRows ==
    { [link_id |-> "L1", clicked_at |-> 4260, ip_address |-> "10.0.0.1",
       referrer |-> "A", country |-> "None"],
      [link_id |-> "L1", clicked_at |-> 4300, ip_address |-> "10.0.0.1",
       referrer |-> "B", country |-> "None"],
      [link_id |-> "L1", clicked_at |-> 4300, ip_address |-> "8.8.8.8",
       referrer |-> "B", country |-> "US"],
      [link_id |-> "L1", clicked_at |-> 4300, ip_address |-> "none",
       referrer |-> "None", country |-> "None"],
      [link_id |-> "L1", clicked_at |-> 4400, ip_address |-> "8.8.8.8",
       referrer |-> "", country |-> "NO"],
      [link_id |-> "L2", clicked_at |-> 4260, ip_address |-> "8.8.8.8",
       referrer |-> "A", country |-> "US"],
      [link_id |-> "L1", clicked_at |-> 720, ip_address |-> "10.0.0.1",
       referrer |-> "A", country |-> "None"] }

VARIABLES
    a_running,          \* self._running
    a_task,             \* per job: where its loop task is suspended
    a_cancel,           \* per job: a CancelledError is on its way to the task
    a_stop,             \* where the owner's stop() call is suspended
    a_runs,             \* per job: self._hourly_runs, self._daily_runs
    a_now,              \* the clock (datetime.utcnow()), as of its latest reading
    a_hourly,           \* the link_stats_hourly table
    a_daily,            \* the link_stats_daily table
    a_hstart,           \* aggregate_hourly: start_time
    a_hrows,            \* aggregate_hourly: rows, the result of its query
    a_dstart,           \* aggregate_daily: start_date
    a_dlinks,           \* aggregate_daily: link_ids, the result of its first query
    a_dpos,             \* aggregate_daily: iterations of its two loops completed
    a_dstat,            \* _aggregate_daily_for_link: stats
    a_drefs,            \* _aggregate_daily_for_link: top_referrers
    a_dctry,            \* _aggregate_daily_for_link: top_countries
    a_dpend,            \* aggregate_daily: upserts executed, not yet committed
    a_dcount,           \* aggregate_daily: rows_upserted
    a_read,             \* per job: rows the clicks table had at the run's first read
    a_ret,              \* per job: what its last completed run returned
    a_prev,             \* history, per job: what the run before the last one read
    a_failed,           \* history, per job: its last run raised
    a_active            \* history, per job: runs begun and not yet ended

Jobs == {"hourly", "daily"}

\* date_trunc('hour', clicked_at), and now.replace(minute=0, second=0, ...).
HourTrunc(t) == (t \div 60) * 60
\* func.date(clicked_at), and datetime.date().
DateOf(t) == t \div 1440

NoTable == [k \in {} |-> 0]
NoRun == -1
NoStat == [click_count |-> 0, unique_visitors |-> 0]

hvars == <<a_hstart, a_hrows>>
dvars == <<a_dstart, a_dlinks, a_dpos, a_dstat, a_drefs, a_dctry, a_dpend, a_dcount>>

\* The positions of the clicks of link l whose clicked_at is in [from, to).
ClicksOf(store, l, from, to) ==
    {i \in 1..Len(store) : /\ store[i].link_id = l
                           /\ store[i].clicked_at >= from
                           /\ store[i].clicked_at < to}

\* count(distinct ip_address): a NULL address is not counted.
DistinctIps(store, sel) == {store[i].ip_address : i \in sel} \ {"none"}

StatOf(store, sel) ==
    [click_count |-> Cardinality(sel),
     unique_visitors |-> Cardinality(DistinctIps(store, sel))]

\* start_time of aggregate_hourly: the current hour, less hours_back hours.
UnalignedWindowStart(now) == now - HoursBack * 60
HourlyWindowStart(now) == HourTrunc(now) - HoursBack * 60

\* (below) the query of aggregate_hourly with `>` for its `>=`
HourlyQueryStrictlyAfter(store, start) ==
    LET sel == {i \in 1..Len(store) : store[i].clicked_at > start}
        keys == {<<store[i].link_id, HourTrunc(store[i].clicked_at)>> : i \in sel}
    IN [k \in keys |->
          StatOf(store, {i \in sel : /\ store[i].link_id = k[1]
                                     /\ HourTrunc(store[i].clicked_at) = k[2]})]
\* (below) the query of aggregate_hourly, and the same without its WHERE clause
HourlyQueryNoWindow(store, start) ==
    LET sel == 1..Len(store)
        keys == {<<store[i].link_id, HourTrunc(store[i].clicked_at)>> : i \in sel}
    IN [k \in keys |->
          StatOf(store, {i \in sel : /\ store[i].link_id = k[1]
                                     /\ HourTrunc(store[i].clicked_at) = k[2]})]
\* The query of aggregate_hourly: one row per (link_id, hour) that has a click
\* at or after start, with the count and the distinct addresses of the clicks
\* the WHERE clause selected.
HourlyQuery(store, start) ==
    LET sel == {i \in 1..Len(store) : store[i].clicked_at >= start}
        keys == {<<store[i].link_id, HourTrunc(store[i].clicked_at)>> : i \in sel}
    IN [k \in keys |->
          StatOf(store, {i \in sel : /\ store[i].link_id = k[1]
                                     /\ HourTrunc(store[i].clicked_at) = k[2]})]

\* ON CONFLICT (link_id, hour) DO UPDATE SET click_count, unique_visitors: the
\* row of a key that is present becomes the new values.
AccumulateOnConflict(old, new) ==
    [click_count |-> old.click_count + new.click_count,
     unique_visitors |-> old.unique_visitors + new.unique_visitors]
ReplaceOnConflict(old, new) == new

\* The table after the upserts of rows.  (First, a write that leaves only the
\* rows of the run in the table.)
UpsertReplacesTable(table, rows) == rows
Upsert(table, rows) ==
    [k \in DOMAIN table \cup DOMAIN rows |->
        IF k \notin DOMAIN rows THEN table[k]
        ELSE IF k \in DOMAIN table THEN ReplaceOnConflict(table[k], rows[k])
        ELSE rows[k]]

InitAggregator ==
    /\ a_running = FALSE
    /\ a_task = [j \in Jobs |-> "none"]
    /\ a_cancel = [j \in Jobs |-> FALSE]
    /\ a_stop = "idle"
    /\ a_runs = [j \in Jobs |-> 0]
    /\ a_now = 4410
    /\ a_hourly = NoTable
    /\ a_daily = NoTable
    /\ a_hstart = 0
    /\ a_hrows = NoTable
    /\ a_dstart = 0
    /\ a_dlinks = <<>>
    /\ a_dpos = 0
    /\ a_dstat = NoStat
    /\ a_drefs = <<>>
    /\ a_dctry = <<>>
    /\ a_dpend = NoTable
    /\ a_dcount = 0
    /\ a_read = [j \in Jobs |-> NoRun]
    /\ a_ret = [j \in Jobs |-> NoRun]
    /\ a_prev = [j \in Jobs |-> NoRun]
    /\ a_failed = [j \in Jobs |-> FALSE]
    /\ a_active = [j \in Jobs |-> 0]

\* _batch_insert commits a click: the table grows at its end.
ClickCommitted(row) ==
    /\ Len(raw_store) < MaxClicks
    /\ raw_store' = Append(raw_store,
                           [id |-> Len(raw_store) + 1, link_id |-> row.link_id,
                            clicked_at |-> row.clicked_at,
                            ip_address |-> row.ip_address,
                            referrer |-> row.referrer, country |-> row.country,
                            city |-> "None"])
    /\ UNCHANGED <<a_running, a_task, a_cancel, a_stop, a_runs, a_now, a_hourly,
                   a_daily, hvars, dvars, a_read, a_ret, a_prev, a_failed, a_active>>

\* start(): a no-op on a running aggregator, else create the two loop tasks.
AggregatorStart ==
    /\ a_stop = "idle"
    /\ ~a_running
    /\ a_running' = TRUE
    /\ a_task' = [j \in Jobs |-> "sleep"]
    /\ UNCHANGED <<a_cancel, a_stop, a_runs, a_now, a_hourly, a_daily, hvars,
                   dvars, a_read, a_ret, a_prev, a_failed, a_active, raw_store>>

\* The loop of job j after a run ended: `while self._running`.
LoopTerminatesOnError(j, raised) == IF raised \/ ~a_running THEN "done" ELSE "sleep"
AfterRun(j, raised) == IF a_running THEN "sleep" ELSE "done"

\* Where the loop of job j is when its timer starts a run: the loop awaits
\* aggregate_hourly or aggregate_daily before it sleeps again, so only in its
\* sleep.  (First, a timer that fires whatever the loop is doing.)
TickWhileRunning(j) ==
    {"sleep", "select", "commit", "links", "stats", "referrers", "countries", "upsert"}
TickFrom(j) == {"sleep"}

\* A run of job j begins: what the run before it read is remembered when
\* that run completed.
RunBegins(j) ==
    /\ a_prev' = [a_prev EXCEPT ![j] = IF a_failed[j] THEN @ ELSE a_read[j]]
    /\ a_active' = [a_active EXCEPT ![j] = @ + 1]

\* A run of job j returned ret: the loop counts it and tests _running.
RunReturns(j, ret) ==
    /\ a_ret' = [a_ret EXCEPT ![j] = ret]
    /\ a_runs' = [a_runs EXCEPT ![j] = @ + 1]
    /\ a_failed' = [a_failed EXCEPT ![j] = FALSE]
    /\ a_active' = [a_active EXCEPT ![j] = @ - 1]
    /\ a_task' = [a_task EXCEPT ![j] = AfterRun(j, FALSE)]

\* A run of job j raised an Exception: the loop logs it and tests _running.
RunRaises(j) ==
    /\ a_failed' = [a_failed EXCEPT ![j] = TRUE]
    /\ a_active' = [a_active EXCEPT ![j] = @ - 1]
    /\ a_task' = [a_task EXCEPT ![j] = AfterRun(j, TRUE)]
    /\ UNCHANGED <<a_ret, a_runs>>

\* The hourly loop's sleep ends: aggregate_hourly reads the clock, computes
\* start_time and sends its query.
HourlyTick(now) ==
    /\ a_task["hourly"] \in TickFrom("hourly")
    /\ ~a_cancel["hourly"]
    /\ a_runs["hourly"] < MaxRuns
    /\ now >= a_now
    /\ a_now' = now
    /\ a_hstart' = HourlyWindowStart(now)
    /\ a_task' = [a_task EXCEPT !["hourly"] = "select"]
    /\ RunBegins("hourly")
    /\ UNCHANGED <<a_running, a_cancel, a_stop, a_runs, a_hourly, a_daily,
                   a_hrows, dvars, a_read, a_ret, a_failed, raw_store>>

\* The query returns.  Without rows the run returns 0 at once; else the upserts
\* are executed and the commit is sent.
HourlySelectReturns ==
    /\ a_task["hourly"] = "select"
    /\ ~a_cancel["hourly"]
    /\ a_read' = [a_read EXCEPT !["hourly"] = Len(raw_store)]
    /\ LET rows == HourlyQuery(raw_store, a_hstart)
       IN IF rows = NoTable
          THEN /\ RunReturns("hourly", 0)
               /\ UNCHANGED a_hrows
          ELSE /\ a_hrows' = rows
               /\ a_task' = [a_task EXCEPT !["hourly"] = "commit"]
               /\ UNCHANGED <<a_ret, a_runs, a_failed, a_active>>
    /\ UNCHANGED <<a_running, a_cancel, a_stop, a_now, a_hourly, a_daily, a_hstart,
                   dvars, a_prev, raw_store>>

\* session.commit() returns: the upserts are in the table, the run returns
\* len(rows).
HourlyCommits ==
    /\ a_task["hourly"] = "commit"
    /\ ~a_cancel["hourly"]
    /\ a_hourly' = Upsert(a_hourly, a_hrows)
    /\ a_hrows' = NoTable
    /\ RunReturns("hourly", Cardinality(DOMAIN a_hrows))
    /\ UNCHANGED <<a_running, a_cancel, a_stop, a_now, a_daily, a_hstart, dvars,
                   a_read, a_prev, raw_store>>

\* `async with async_session_factory() as session` is left without a commit:
\* the session is closed and the statements it executed are rolled back.
\* (First, a session whose executed statements stay in the table.)
StagedKeptOnAbort(table, staged) ==
    [k \in DOMAIN table \cup DOMAIN staged |->
        IF k \in DOMAIN staged THEN staged[k] ELSE table[k]]
RolledBack(table, staged) == table

\* A statement of aggregate_hourly raises: the session is rolled back, the
\* loop's except clause logs the error.
HourlyFails ==
    /\ a_task["hourly"] \in {"select", "commit"}
    /\ ~a_cancel["hourly"]
    /\ a_hourly' = RolledBack(a_hourly, a_hrows)
    /\ a_hrows' = NoTable
    /\ RunRaises("hourly")
    /\ UNCHANGED <<a_running, a_cancel, a_stop, a_now, a_daily, a_hstart,
                   dvars, a_read, a_prev, raw_store>>

\* ---- aggregate_daily
\* A JSONB column the code sets to `list if list else None`.
Nullable(list) == [null |-> list = <<>>, list |-> list]

\* link_ids of aggregate_daily: the links with a click on or after start_date.
\* The order of the result is the database's; the upserts of a run commit
\* together, so one order is taken.
DailyLinks(store, start_date) ==
    LET found(l) == \E i \in 1..Len(store) : /\ store[i].link_id = l
                                             /\ DateOf(store[i].clicked_at) >= start_date
    IN (IF found("L1") THEN <<"L1">> ELSE <<>>) \o (IF found("L2") THEN <<"L2">> ELSE <<>>)

\* The clicks of link l on date d.
ClicksOnOrAfter(store, l, d) == ClicksOf(store, l, d * 1440, (d + 2) * 1440)
ClicksOn(store, l, d) == ClicksOf(store, l, d * 1440, (d + 1) * 1440)

\* The rows of `GROUP BY col ORDER BY count(*) DESC LIMIT n` over the clicks
\* sel, the values in skip filtered out.  The statement orders by the count
\* alone: among groups of equal count the order, and which of them fall under
\* the limit, is whatever the executor produces, so every result that is
\* sorted by count is a possible one.
TopLists(store, sel, col, skip, n) ==
    LET groups == {store[i][col] : i \in sel} \ skip
        cnt(v) == Cardinality({i \in sel : store[i][col] = v})
        k == IF Cardinality(groups) < n THEN Cardinality(groups) ELSE n
    IN {[i \in 1..k |-> [name |-> s[i], count |-> cnt(s[i])]] :
          s \in {t \in [1..k -> groups] :
                   /\ \A i, j \in 1..k : i # j => t[i] # t[j]
                   /\ \A i, j \in 1..k : i < j => cnt(t[i]) >= cnt(t[j])
                   /\ \A v \in groups :
                        (\A i \in 1..k : t[i] # v) =>
                            \A i \in 1..k : cnt(v) <= cnt(t[i])}}

\* The link and the date of the iteration aggregate_daily is in.
DailyLink == a_dlinks[(a_dpos \div (DaysBack + 1)) + 1]
DailyDate == a_dstart + (a_dpos % (DaysBack + 1))

\* The daily loop's sleep ends: aggregate_daily reads the clock, computes
\* start_date and sends the query for the links.
DailyTick(now) ==
    /\ a_task["daily"] \in TickFrom("daily")
    /\ ~a_cancel["daily"]
    /\ a_runs["daily"] < MaxRuns
    /\ now >= a_now
    /\ a_now' = now
    /\ a_dstart' = DateOf(now) - DaysBack
    /\ a_task' = [a_task EXCEPT !["daily"] = "links"]
    /\ RunBegins("daily")
    /\ UNCHANGED <<a_running, a_cancel, a_stop, a_runs, a_hourly, a_daily, hvars,
                   a_dlinks, a_dpos, a_dstat, a_drefs, a_dctry, a_dpend, a_dcount,
                   a_read, a_ret, a_failed, raw_store>>

\* The query for the links returns.  Without links the run returns 0 at once;
\* else the first _aggregate_daily_for_link sends its stats query.
DailyLinksReturn ==
    /\ a_task["daily"] = "links"
    /\ ~a_cancel["daily"]
    /\ a_read' = [a_read EXCEPT !["daily"] = Len(raw_store)]
    /\ LET links == DailyLinks(raw_store, a_dstart)
       IN IF links = <<>>
          THEN /\ RunReturns("daily", 0)
               /\ UNCHANGED a_dlinks
          ELSE /\ a_dlinks' = links
               /\ a_task' = [a_task EXCEPT !["daily"] = "stats"]
               /\ UNCHANGED <<a_ret, a_runs, a_failed, a_active>>
    /\ a_dpos' = 0
    /\ a_dcount' = 0
    /\ a_dpend' = NoTable
    /\ UNCHANGED <<a_running, a_cancel, a_stop, a_now, a_hourly, a_daily, hvars,
                   a_dstart, a_dstat, a_drefs, a_dctry, a_prev, raw_store>>

\* _aggregate_daily_for_link returned: rows_upserted += 1, and the loops go on
\* to the next date, the next link, or the commit.
DailyIterationEnds ==
    /\ a_dcount' = a_dcount + 1
    /\ a_dpos' = a_dpos + 1
    /\ a_task' = [a_task EXCEPT !["daily"] =
                     IF a_dpos + 1 = Len(a_dlinks) * (DaysBack + 1)
                     THEN "commit" ELSE "stats"]

\* The guard of _aggregate_daily_for_link: return when the date has no click.
WritesEmptyDates(stats) == FALSE
SkipsDate(stats) == stats.click_count = 0

\* The stats query of _aggregate_daily_for_link returns.
DailyStatsReturn ==
    /\ a_task["daily"] = "stats"
    /\ ~a_cancel["daily"]
    /\ LET stats == StatOf(raw_store, ClicksOn(raw_store, DailyLink, DailyDate))
       IN IF SkipsDate(stats)
          THEN /\ DailyIterationEnds
               /\ UNCHANGED a_dstat
          ELSE /\ a_dstat' = stats
               /\ a_task' = [a_task EXCEPT !["daily"] = "referrers"]
               /\ UNCHANGED <<a_dpos, a_dcount>>
    /\ UNCHANGED <<a_running, a_cancel, a_stop, a_runs, a_now, a_hourly, a_daily,
                   hvars, a_dstart, a_dlinks, a_drefs, a_dctry, a_dpend, a_read,
                   a_ret, a_prev, a_failed, a_active, raw_store>>

\* The referrers query returns: NULL and empty referrers are filtered out.
DailyReferrersReturn ==
    /\ a_task["daily"] = "referrers"
    /\ ~a_cancel["daily"]
    /\ \E refs \in TopLists(raw_store, ClicksOn(raw_store, DailyLink, DailyDate),
                            "referrer", {"None", ""}, TopN) :
          a_drefs' = refs
    /\ a_task' = [a_task EXCEPT !["daily"] = "countries"]
    /\ UNCHANGED <<a_running, a_cancel, a_stop, a_runs, a_now, a_hourly, a_daily,
                   hvars, a_dstart, a_dlinks, a_dpos, a_dstat, a_dctry, a_dpend,
                   a_dcount, a_read, a_ret, a_prev, a_failed, a_active, raw_store>>

\* The countries query returns: NULL countries are filtered out.
DailyCountriesReturn ==
    /\ a_task["daily"] = "countries"
    /\ ~a_cancel["daily"]
    /\ \E ctry \in TopLists(raw_store, ClicksOn(raw_store, DailyLink, DailyDate),
                            "country", {"None"}, TopN) :
          a_dctry' = ctry
    /\ a_task' = [a_task EXCEPT !["daily"] = "upsert"]
    /\ UNCHANGED <<a_running, a_cancel, a_stop, a_runs, a_now, a_hourly, a_daily,
                   hvars, a_dstart, a_dlinks, a_dpos, a_dstat, a_drefs, a_dpend,
                   a_dcount, a_read, a_ret, a_prev, a_failed, a_active, raw_store>>

\* The upsert of _aggregate_daily_for_link is executed: ON CONFLICT (link_id,
\* date) DO UPDATE SET the four columns.
DailyUpsertDone ==
    /\ a_task["daily"] = "upsert"
    /\ ~a_cancel["daily"]
    /\ a_dpend' = Upsert(a_dpend,
                         [k \in {<<DailyLink, DailyDate>>} |->
                            [click_count |-> a_dstat.click_count,
                             unique_visitors |-> a_dstat.unique_visitors,
                             top_referrers |-> Nullable(a_drefs),
                             top_countries |-> Nullable(a_dctry)]])
    /\ a_dstat' = NoStat
    /\ a_drefs' = <<>>
    /\ a_dctry' = <<>>
    /\ DailyIterationEnds
    /\ UNCHANGED <<a_running, a_cancel, a_stop, a_runs, a_now, a_hourly, a_daily,
                   hvars, a_dstart, a_dlinks, a_read, a_ret, a_prev, a_failed, a_active,
                   raw_store>>

\* session.commit() returns: the upserts are in the table, the run returns
\* rows_upserted.
DailyCommits ==
    /\ a_task["daily"] = "commit"
    /\ ~a_cancel["daily"]
    /\ a_daily' = Upsert(a_daily, a_dpend)
    /\ a_dpend' = NoTable
    /\ a_dlinks' = <<>>
    /\ a_dpos' = 0
    /\ a_dcount' = 0
    /\ RunReturns("daily", a_dcount)
    /\ UNCHANGED <<a_running, a_cancel, a_stop, a_now, a_hourly, hvars, a_dstart,
                   a_dstat, a_drefs, a_dctry, a_read, a_prev, raw_store>>

DailyInRun == {"links", "stats", "referrers", "countries", "upsert", "commit"}

\* A statement of aggregate_daily raises: the session is rolled back, the
\* loop's except clause logs the error.
DailyFails ==
    /\ a_task["daily"] \in DailyInRun
    /\ ~a_cancel["daily"]
    /\ a_dpend' = NoTable
    /\ a_dlinks' = <<>>
    /\ a_dpos' = 0
    /\ a_dstat' = NoStat
    /\ a_drefs' = <<>>
    /\ a_dctry' = <<>>
    /\ a_dcount' = 0
    /\ a_daily' = RolledBack(a_daily, a_dpend)
    /\ RunRaises("daily")
    /\ UNCHANGED <<a_running, a_cancel, a_stop, a_now, a_hourly, hvars,
                   a_dstart, a_read, a_prev, raw_store>>

\* ---- cancellation and stop()
InRun(j) == IF j = "hourly" THEN {"select", "commit"} ELSE DailyInRun

\* CancelledError is thrown into the loop task of job j at the await it is
\* suspended at.  It is no Exception: the inner except clause does not run,
\* the session is rolled back and closed, the outer clause ends the task.  A
\* commit that was in flight has reached the database or not.
LoopCancelled(j, committed) ==
    /\ a_cancel[j]
    /\ a_task[j] \in {"sleep"} \cup InRun(j)
    /\ a_cancel' = [a_cancel EXCEPT ![j] = FALSE]
    /\ a_task' = [a_task EXCEPT ![j] = "done"]
    /\ committed => a_task[j] = "commit"
    /\ a_hourly' = IF j # "hourly" THEN a_hourly
                   ELSE IF committed THEN Upsert(a_hourly, a_hrows)
                   ELSE RolledBack(a_hourly, a_hrows)
    /\ a_daily' = IF j # "daily" THEN a_daily
                  ELSE IF committed THEN Upsert(a_daily, a_dpend)
                  ELSE RolledBack(a_daily, a_dpend)
    /\ IF j = "hourly"
       THEN a_hrows' = NoTable /\ UNCHANGED <<a_hstart, dvars>>
       ELSE /\ a_dpend' = NoTable
            /\ a_dlinks' = <<>>
            /\ a_dpos' = 0
            /\ a_dstat' = NoStat
            /\ a_drefs' = <<>>
            /\ a_dctry' = <<>>
            /\ a_dcount' = 0
            /\ UNCHANGED <<a_dstart, hvars>>
    /\ a_active' = [a_active EXCEPT ![j] = IF a_task[j] \in InRun(j) THEN @ - 1 ELSE @]
    /\ UNCHANGED <<a_running, a_stop, a_runs, a_now, a_read, a_ret, a_prev,
                   a_failed, raw_store>>

\* task.cancel() on the task of job j: a finished task is left alone.
CancelRequested(j) == a_task[j] \notin {"done", "none"}

\* stop() up to `await task` for the hourly task.
AggregatorStopBegin ==
    /\ a_stop = "idle"
    /\ a_running
    /\ a_running' = FALSE
    /\ a_cancel' = [a_cancel EXCEPT !["hourly"] = CancelRequested("hourly")]
    /\ a_stop' = "await_hourly"
    /\ UNCHANGED <<a_task, a_runs, a_now, a_hourly, a_daily, hvars, dvars, a_read,
                   a_ret, a_prev, a_failed, a_active, raw_store>>

\* Whether stop(), about to await the task of job j, has to wait for it.
StopSkipsAwait(j) == FALSE
StopMustAwait(j) == a_task[j] # "done"

\* stop() after its last await: drop the two task references and return.  A
\* task is not ended by losing its reference.
StopReturns ==
    /\ a_task' = [j \in Jobs |-> IF a_task[j] = "done" THEN "none" ELSE a_task[j]]
    /\ a_stop' = "idle"

\* The hourly task has ended: stop() cancels the daily task and awaits it.
StopAwaitsDaily ==
    /\ a_stop = "await_hourly"
    /\ a_task["hourly"] = "done"
    /\ a_cancel' = [a_cancel EXCEPT !["daily"] = CancelRequested("daily")]
    /\ IF StopMustAwait("daily")
       THEN a_stop' = "await_daily" /\ UNCHANGED a_task
       ELSE StopReturns
    /\ UNCHANGED <<a_running, a_runs, a_now, a_hourly, a_daily, hvars, dvars,
                   a_read, a_ret, a_prev, a_failed, a_active, raw_store>>

\* The daily task has ended: stop() returns.
StopEnds ==
    /\ a_stop = "await_daily"
    /\ a_task["daily"] = "done"
    /\ StopReturns
    /\ UNCHANGED <<a_running, a_cancel, a_runs, a_now, a_hourly, a_daily, hvars,
                   dvars, a_read, a_ret, a_prev, a_failed, a_active, raw_store>>

avars == <<a_running, a_task, a_cancel, a_stop, a_runs, a_now, a_hourly, a_daily,
           hvars, dvars, a_read, a_ret, a_prev, a_failed, a_active>>

\* ------------------------------------------------------------ redirect path
\* services/api/app/api/redirect.py: the producer of the click events.  One
\* short code is followed; each request for it is a coroutine of its own, and
\* the publish of its click event is a task of its own.

\* Requests for the short code in one behaviour.
MaxRequests == 2

Reqs == 1..MaxRequests

VARIABLES
    r_link,             \* the row of the short code in the links table
    r_cache,            \* the entry of the short code in the link cache
    r_pc,               \* per request: where redirect_to_original is suspended
    r_resp,             \* per request: the status of its response, 0 while there is none
    r_pub,              \* per request: where its publish_click_event_async task is
    r_calls             \* per request: calls of publish_click_event made for it

rvars == <<r_link, r_cache, r_pc, r_resp, r_pub, r_calls>>

\* The rows get_link_by_short_code may find: none, a soft-deleted link, an
\* expired link and a link that is active and not expired.
LinkRows ==
    { [found |-> FALSE, is_active |-> FALSE, expired |-> FALSE],
      [found |-> TRUE, is_active |-> FALSE, expired |-> FALSE],
      [found |-> TRUE, is_active |-> TRUE, expired |-> TRUE],
      [found |-> TRUE, is_active |-> TRUE, expired |-> FALSE] }

NoEntry == [present |-> FALSE, is_active |-> FALSE]

\* The checks on a cache hit: 404 for an inactive entry, 410 when expires_at
\* has passed, else the redirect.
CachedStatus(entry, expired) ==
    IF ~entry.is_active THEN 404 ELSE IF expired THEN 410 ELSE 307

\* The checks on the row read from the database.
LinkStatus(link) ==
    IF ~link.found THEN 404
    ELSE IF ~link.is_active THEN 404
    ELSE IF link.expired THEN 410
    ELSE 307

\* Whether the handler reaches asyncio.create_task(publish_click_event_async):
\* both calls come after the raise statements of their branch.
PublishesAlways(status) == TRUE
PublishesFor(status) == status = 307

\* What becomes of the publish task when the handler leaves the checks.
TaskAfterChecks(q, status) ==
    r_pub' = [r_pub EXCEPT ![q] = IF PublishesFor(status) THEN "scheduled" ELSE @]

InitRequests ==
    /\ r_cache = NoEntry
    /\ r_pc = [q \in Reqs |-> "new"]
    /\ r_resp = [q \in Reqs |-> 0]
    /\ r_pub = [q \in Reqs |-> "none"]
    /\ r_calls = [q \in Reqs |-> 0]

InitRedirect ==
    /\ InitRequests
    /\ r_link = [found |-> TRUE, is_active |-> TRUE, expired |-> FALSE]

\* The handler raises HTTPException(status).
Rejects(q, status) ==
    /\ r_resp' = [r_resp EXCEPT ![q] = status]
    /\ r_pc' = [r_pc EXCEPT ![q] = "done"]
    /\ TaskAfterChecks(q, status)

\* The handler creates the publish task and awaits increment_click_count.
Accepts(q) ==
    /\ r_pc' = [r_pc EXCEPT ![q] = "increment"]
    /\ TaskAfterChecks(q, 307)
    /\ UNCHANGED r_resp

\* A request arrives: redirect_to_original up to `await get_cached_link`.
RedirectBegins(q) ==
    /\ r_pc[q] = "new"
    /\ r_pc' = [r_pc EXCEPT ![q] = "get_cached"]
    /\ UNCHANGED <<r_link, r_cache, r_resp, r_pub, r_calls>>

\* get_cached_link returns the entry, or None on a miss and on a RedisError.
GetCachedReturns(q, err) ==
    /\ r_pc[q] = "get_cached"
    /\ IF r_cache.present /\ ~err
       THEN LET status == CachedStatus(r_cache, r_link.expired)
            IN IF status = 307 THEN Accepts(q) ELSE Rejects(q, status)
       ELSE /\ r_pc' = [r_pc EXCEPT ![q] = "get_link"]
            /\ UNCHANGED <<r_resp, r_pub>>
    /\ UNCHANGED <<r_link, r_cache, r_calls>>

\* get_link_by_short_code returns: the checks, then `await cache_link`.
GetLinkReturns(q) ==
    /\ r_pc[q] = "get_link"
    /\ LET status == LinkStatus(r_link)
       IN IF status = 307
          THEN /\ r_pc' = [r_pc EXCEPT ![q] = "cache_link"]
               /\ UNCHANGED <<r_resp, r_pub>>
          ELSE Rejects(q, status)
    /\ UNCHANGED <<r_link, r_cache, r_calls>>

\* cache_link returns, the entry written unless Redis raised (the error is
\* logged inside cache_link).
CacheLinkReturns(q, err) ==
    /\ r_pc[q] = "cache_link"
    /\ r_cache' = IF err THEN r_cache ELSE [present |-> TRUE, is_active |-> TRUE]
    /\ Accepts(q)
    /\ UNCHANGED <<r_link, r_calls>>

\* increment_click_count and session.commit return, or one of them raises.
\* The publish task was made ready before the handler suspended, so its first
\* step has run when the database answers.
IncrementReturns(q, ok) ==
    /\ r_pc[q] = "increment"
    /\ r_pub[q] # "scheduled"
    /\ r_resp' = [r_resp EXCEPT ![q] = IF ok THEN 307 ELSE 500]
    /\ r_pc' = [r_pc EXCEPT ![q] = "done"]
    /\ UNCHANGED <<r_link, r_cache, r_pub, r_calls>>

\* The first step of publish_click_event_async: build the event and call
\* publish_click_event, which awaits client.publish.
PublishRuns(q) ==
    /\ r_pub[q] = "scheduled"
    /\ r_pub' = [r_pub EXCEPT ![q] = "publishing"]
    /\ r_calls' = [r_calls EXCEPT ![q] = @ + 1]
    /\ UNCHANGED <<r_link, r_cache, r_pc, r_resp>>

\* client.publish returns or raises: a RedisError is logged by
\* publish_click_event, any other Exception by publish_click_event_async.
PublishEnds(q, out) ==
    /\ r_pub[q] = "publishing"
    /\ r_pub' = [r_pub EXCEPT ![q] = IF out = "ok" THEN "published" ELSE "failed"]
    /\ UNCHANGED <<r_link, r_cache, r_pc, r_resp, r_calls>>

\* Time passes expires_at of the link.
LinkExpires ==
    /\ r_link.found
    /\ ~r_link.expired
    /\ r_link' = [r_link EXCEPT !.expired = TRUE]
    /\ UNCHANGED <<r_cache, r_pc, r_resp, r_pub, r_calls>>

\* The part of the storage service's state the aggregator leaves alone.
sframe == <<s_running, s_cancel, s_pc, s_lock, s_buffer, s_pending, s_snap, s_data,
            s_clicks_stored, s_batches_flushed, s_events, s_accepted, s_failures,
            s_last_failed, s_stop_report>>

\* The storage service's operations as steps of a system in which nothing else
\* moves.
notService == <<cvars, kvars, avars, rvars>>
notStorage == <<notService, gvars, lvars>>
notConsumer == <<svars, kvars, avars, rvars, gvars, lvars>>

S_StoreClick == (\E c \in Callers, ip \in IPs : StoreClick(c, ip)) /\ UNCHANGED notStorage
S_LookupReturns ==
    (\E c \in Callers, loc \in {EmptyLoc, BackendLoc} : LookupReturns(c, loc))
    /\ UNCHANGED notStorage
S_TimerFire == TimerFire /\ UNCHANGED notStorage
S_LockGranted == (\E a \in Actors : LockGranted(a)) /\ UNCHANGED notStorage
S_InsertEnds == (\E a \in Actors, ok \in BOOLEAN : InsertEnds(a, ok)) /\ UNCHANGED notStorage
S_Start == StorageStart /\ UNCHANGED notStorage
S_StopBegin == StorageStopBegin /\ UNCHANGED notStorage
S_TimerCancelled == (\E committed \in BOOLEAN : TimerCancelled(committed)) /\ UNCHANGED notStorage
S_StopFlush == StorageStopFlush /\ UNCHANGED notStorage

StorageNext ==
    \/ S_StoreClick
    \/ S_LookupReturns
    \/ S_TimerFire
    \/ S_LockGranted
    \/ S_InsertEnds
    \/ S_Start
    \/ S_StopBegin
    \/ S_TimerCancelled
    \/ S_StopFlush

\* store_click with its lookup observed.
G_StoreClick ==
    /\ \E c \in Callers, ip \in GeoIPs :
          StoreClick(c, ip) /\ g_geo' = [ip |-> ip, out |-> "none"]
    /\ UNCHANGED <<notService, g_late, lvars>>
G_LookupReturns ==
    /\ \E c \in Callers, out \in BackendOutcomes :
          LookupReturns(c, LookupResult(out)) /\ g_geo' = [g_geo EXCEPT !.out = out]
    /\ UNCHANGED <<notService, g_late, lvars>>

GeoNext ==
    \/ G_StoreClick
    \/ G_LookupReturns
    \/ S_TimerFire
    \/ S_LockGranted
    \/ S_InsertEnds
    \/ S_Start

\* The storage service in a process that may be killed.
S_Crash == (\E committed \in BOOLEAN : Crash(committed)) /\ UNCHANGED <<cvars, avars, rvars, gvars, lvars>>

CrashNext ==
    \/ S_StoreClick
    \/ S_LookupReturns
    \/ S_TimerFire
    \/ S_LockGranted
    \/ S_InsertEnds
    \/ S_Start
    \/ S_StopBegin
    \/ S_TimerCancelled
    \/ S_StopFlush
    \/ S_Crash

\* The consumer's operations as steps of a system in which nothing else moves.
C_RegisterHandler == (\E h \in HandlerIds : RegisterHandler(h)) /\ UNCHANGED notConsumer
C_Start == Start /\ UNCHANGED notConsumer
C_Deliver == (\E m \in Messages : Deliver(m)) /\ UNCHANGED notConsumer
C_HandlerEnds == (\E out \in {"ok", "raise"} : HandlerEnds(out)) /\ UNCHANGED notConsumer
C_TransportError == TransportError /\ UNCHANGED notConsumer
C_StopBegin == StopBegin /\ UNCHANGED notConsumer
C_TaskCancelled == TaskCancelled /\ UNCHANGED notConsumer
C_StopFinish == StopFinish /\ UNCHANGED notConsumer

ConsumerNext ==
    \/ C_RegisterHandler
    \/ C_Start
    \/ C_Deliver
    \/ C_HandlerEnds
    \/ C_TransportError
    \/ C_StopBegin
    \/ C_TaskCancelled
    \/ C_StopFinish

\* ---- the consumer with store_click_handler registered (main.py, lifespan)
\* The handler id that stands for store_click_handler, which awaits
\* store_click of the storage service; the consumer loop is caller c1.
StoreHandler == "h1"

\* The messages published on the channel here: a click event, and a text that
\* is not JSON.
PipelineMessages ==
    {m \in Messages : m.type = "message" /\ (Decode(m.data) = "valid" \/ ~m.data.json)}

\* Whether the store_click call of caller c has returned to `await
\* handler(event)`: _add_to_buffer awaits the flush it triggers.  (First, the
\* same with the flush left to run on its own.)
ReturnsBeforeFlushEnds(c) == s_pc[c] \in {"idle", "insert"}
StoreClickReturned(c) == s_pc[c] = "idle"

notPipeline == <<kvars, avars, rvars, gvars, lvars>>

P_Register ==
    /\ c_handlers = <<>>
    /\ RegisterHandler(StoreHandler)
    /\ UNCHANGED notConsumer
\* A message is delivered; when _process_message calls the handler, that is a
\* store_click call, which runs up to its first suspension.
P_Deliver ==
    /\ \E m \in PipelineMessages : Deliver(m)
    /\ IF c_task' = "handler"
       THEN \E ip \in IPs : StoreClick("c1", ip)
       ELSE UNCHANGED svars
    /\ UNCHANGED notPipeline
\* store_click has returned: the handler loop goes on.
P_HandlerEnds ==
    /\ StoreClickReturned("c1")
    /\ HandlerEnds("ok")
    /\ UNCHANGED <<svars, notPipeline>>

PipelineNext ==
    \/ P_Register
    \/ C_Start
    \/ P_Deliver
    \/ P_HandlerEnds
    \/ S_Start
    \/ S_LookupReturns
    \/ S_TimerFire
    \/ S_LockGranted
    \/ S_InsertEnds

\* The aggregator's operations as steps of a system in which nothing else
\* moves but the clicks table.
notAggregator == <<cvars, kvars, sframe, rvars, gvars, lvars>>

A_ClickCommitted == (\E row \in ClickRows : ClickCommitted(row)) /\ UNCHANGED notAggregator
A_Start == AggregatorStart /\ UNCHANGED notAggregator
A_HourlyTick == (\E now \in Nows : HourlyTick(now)) /\ UNCHANGED notAggregator
A_HourlySelectReturns == HourlySelectReturns /\ UNCHANGED notAggregator
A_HourlyCommits == HourlyCommits /\ UNCHANGED notAggregator
A_HourlyFails == HourlyFails /\ UNCHANGED notAggregator
A_DailyTick == (\E now \in Nows : DailyTick(now)) /\ UNCHANGED notAggregator
A_DailyLinksReturn == DailyLinksReturn /\ UNCHANGED notAggregator
A_DailyStatsReturn == DailyStatsReturn /\ UNCHANGED notAggregator
A_DailyReferrersReturn == DailyReferrersReturn /\ UNCHANGED notAggregator
A_DailyCountriesReturn == DailyCountriesReturn /\ UNCHANGED notAggregator
A_DailyUpsertDone == DailyUpsertDone /\ UNCHANGED notAggregator
A_DailyCommits == DailyCommits /\ UNCHANGED notAggregator
A_DailyFails == DailyFails /\ UNCHANGED notAggregator
A_LoopCancelled ==
    (\E j \in Jobs, committed \in BOOLEAN : LoopCancelled(j, committed))
    /\ UNCHANGED notAggregator
A_StopBegin == AggregatorStopBegin /\ UNCHANGED notAggregator
A_StopAwaitsDaily == StopAwaitsDaily /\ UNCHANGED notAggregator
A_StopEnds == StopEnds /\ UNCHANGED notAggregator

\* ---- the service from startup to shutdown (main.py, lifespan)
\* The calls of lifespan before its yield and after it, in order.  (For the
\* calls after it, first the same with the storage service stopped before the
\* consumer.)
Startup == <<"start_storage", "register_handler", "start_consumer", "start_aggregator">>
ShutdownStorageFirst == <<"stop_aggregator", "stop_storage", "stop_consumer">>
Shutdown == <<"stop_aggregator", "stop_consumer", "stop_storage">>

\* The stop() call that lifespan awaits has returned.
StopReturned(step) ==
    CASE step = "stop_aggregator" -> a_stop = "idle" /\ ~a_running
      [] step = "stop_consumer" -> c_owner = "idle" /\ c_stop_result = "returned"
      [] step = "stop_storage" -> s_pc["stop"] = "idle" /\ ~s_running
      [] OTHER -> FALSE

\* lifespan makes the next call of its startup; after the last it yields.
StartupStep(step) ==
    /\ l_pc.phase = "startup"
    /\ Startup[l_pc.i + 1] = step
    /\ l_pc' = IF l_pc.i + 1 = Len(Startup)
               THEN [phase |-> "serving", i |-> 0]
               ELSE [l_pc EXCEPT !.i = @ + 1]
\* lifespan makes the next call of its shutdown, the one before it, if any,
\* having returned.
ShutdownStep(step) ==
    /\ l_pc.phase = "shutdown"
    /\ l_pc.i < Len(Shutdown)
    /\ Shutdown[l_pc.i + 1] = step
    /\ IF l_pc.i = 0 THEN TRUE ELSE StopReturned(Shutdown[l_pc.i])
    /\ l_pc' = [l_pc EXCEPT !.i = @ + 1]

notLifespan == <<cvars, svars, kvars, avars, rvars, gvars>>

W_StartStorage ==
    StartupStep("start_storage") /\ StorageStart /\ UNCHANGED <<notService, gvars>>
W_RegisterHandler ==
    /\ StartupStep("register_handler")
    /\ RegisterHandler(StoreHandler)
    /\ UNCHANGED <<svars, kvars, avars, rvars, gvars>>
W_StartConsumer ==
    StartupStep("start_consumer") /\ Start /\ UNCHANGED <<svars, kvars, avars, rvars, gvars>>
W_StartAggregator ==
    /\ StartupStep("start_aggregator")
    /\ AggregatorStart
    /\ UNCHANGED <<cvars, kvars, sframe, rvars, gvars>>
\* The application shuts down: lifespan resumes after its yield.
W_ShutdownBegins ==
    /\ l_pc.phase = "serving"
    /\ l_pc' = [phase |-> "shutdown", i |-> 0]
    /\ UNCHANGED notLifespan
W_StopAggregator ==
    /\ ShutdownStep("stop_aggregator")
    /\ AggregatorStopBegin
    /\ UNCHANGED <<cvars, kvars, sframe, rvars, gvars>>
W_StopConsumer ==
    ShutdownStep("stop_consumer") /\ StopBegin /\ UNCHANGED <<svars, kvars, avars, rvars, gvars>>
W_StopStorage ==
    ShutdownStep("stop_storage") /\ StorageStopBegin /\ UNCHANGED <<notService, gvars>>
\* The last stop() has returned: lifespan ends.
W_Closed ==
    /\ l_pc.phase = "shutdown"
    /\ l_pc.i = Len(Shutdown)
    /\ StopReturned(Shutdown[l_pc.i])
    /\ l_pc' = [phase |-> "closed", i |-> 0]
    /\ UNCHANGED notLifespan
\* stop() of the consumer has raised: the exception leaves lifespan.
W_Raised ==
    /\ l_pc.phase = "shutdown"
    /\ l_pc.i > 0
    /\ Shutdown[l_pc.i] = "stop_consumer"
    /\ c_owner = "idle" /\ c_stop_result = "raised"
    /\ l_pc' = [phase |-> "failed", i |-> 0]
    /\ UNCHANGED notLifespan
\* The receive loop is cancelled; a store_click call it awaits is cancelled
\* with it.
X_TaskCancelled ==
    /\ TaskCancelled
    /\ IF c_task = "handler" /\ s_pc["c1"] # "idle"
       THEN \E committed \in BOOLEAN : CallerCancelled("c1", committed)
       ELSE UNCHANGED svars
    /\ UNCHANGED notPipeline

\* The timers of the aggregator do not fire between startup and shutdown.
LifespanNext ==
    \/ W_StartStorage
    \/ W_RegisterHandler
    \/ W_StartConsumer
    \/ W_StartAggregator
    \/ P_Deliver
    \/ P_HandlerEnds
    \/ S_LookupReturns
    \/ S_TimerFire
    \/ S_LockGranted
    \/ S_InsertEnds
    \/ C_TransportError
    \/ W_ShutdownBegins
    \/ W_StopAggregator
    \/ A_LoopCancelled
    \/ A_StopAwaitsDaily
    \/ A_StopEnds
    \/ W_StopConsumer
    \/ X_TaskCancelled
    \/ C_StopFinish
    \/ W_Raised
    \/ W_StopStorage
    \/ S_TimerCancelled
    \/ S_StopFlush
    \/ W_Closed

\* ---- the hourly job with the clock followed between its runs
\* The instants the clock passes: day 3 at 01:30, day 3 at 02:10, when the
\* hour 23:00 of day 2 has left the hourly window, and day 6 at 00:10.
Instants == {4410, 4450, 8650}

\* The clicks committed here: one of each link and click time above, which is
\* what the query of aggregate_hourly groups and filters by.
LateRows == {row \in ClickRows : row.referrer # "B"}

\* Time passes while the loop sleeps or awaits the database.
T_ClockAdvances ==
    /\ \E now \in Instants : now > a_now /\ a_now' = now
    /\ UNCHANGED <<a_running, a_task, a_cancel, a_stop, a_runs, a_hourly, a_daily,
                   hvars, dvars, a_read, a_ret, a_prev, a_failed, a_active,
                   raw_store, notAggregator>>
\* The hourly loop's sleep ends: aggregate_hourly reads the clock as it is.
T_HourlyTick == HourlyTick(a_now) /\ UNCHANGED notAggregator
\* A click is committed; whether its hour is then inside the window of a run
\* that would read the clock now is remembered.
T_ClickArrives ==
    /\ \E row \in LateRows :
          /\ ClickCommitted(row)
          /\ g_late' = IF row.clicked_at < HourlyWindowStart(a_now)
                       THEN g_late \cup {Len(raw_store) + 1}
                       ELSE g_late
    /\ UNCHANGED <<cvars, kvars, sframe, rvars, g_geo, lvars>>

\* Runs that succeed: no statement of aggregate_hourly raises.
LateNext ==
    \/ A_Start
    \/ T_ClickArrives
    \/ T_ClockAdvances
    \/ T_HourlyTick
    \/ A_HourlySelectReturns
    \/ A_HourlyCommits

\* The hourly job alone: the daily loop's timer does not fire.
HourlyNext ==
    \/ A_ClickCommitted
    \/ A_Start
    \/ A_HourlyTick
    \/ A_HourlySelectReturns
    \/ A_HourlyCommits
    \/ A_HourlyFails

\* The daily job alone: the hourly loop's timer does not fire.
DailyNext ==
    \/ A_ClickCommitted
    \/ A_Start
    \/ A_DailyTick
    \/ A_DailyLinksReturn
    \/ A_DailyStatsReturn
    \/ A_DailyReferrersReturn
    \/ A_DailyCountriesReturn
    \/ A_DailyUpsertDone
    \/ A_DailyCommits
    \/ A_DailyFails

\* Either job with the clicks table growing under it.  The two jobs read the
\* same table and write two different ones, so each is followed while the
\* timer of the other has not fired yet.
NotYetRun(j) ==
    a_task[j] = "sleep" /\ a_runs[j] = 0 /\ a_read[j] = NoRun /\ ~a_failed[j]
R_HourlyTick == NotYetRun("daily") /\ A_HourlyTick
R_DailyTick == NotYetRun("hourly") /\ A_DailyTick

RollupNext ==
    \/ A_ClickCommitted
    \/ A_Start
    \/ R_HourlyTick
    \/ A_HourlySelectReturns
    \/ A_HourlyCommits
    \/ A_HourlyFails
    \/ R_DailyTick
    \/ A_DailyLinksReturn
    \/ A_DailyStatsReturn
    \/ A_DailyReferrersReturn
    \/ A_DailyCountriesReturn
    \/ A_DailyUpsertDone
    \/ A_DailyCommits
    \/ A_DailyFails

\* Either job with the clock followed and the clicks table growing under it,
\* between start() and stop(): as above, each job is followed while the timer
\* of the other has not fired yet.
\* The clicks committed here are those of one link inside the windows of the
\* first instant: two of one hour, one of a later hour.
MonotoneRows == {row \in LateRows : row.link_id = "L1" /\ row.clicked_at >= 4260}
M_ClickCommitted == (\E row \in MonotoneRows : ClickCommitted(row)) /\ UNCHANGED notAggregator
M_HourlyTick == NotYetRun("daily") /\ T_HourlyTick
M_DailyTick == NotYetRun("hourly") /\ DailyTick(a_now) /\ UNCHANGED notAggregator

MonotoneNext ==
    \/ M_ClickCommitted
    \/ T_ClockAdvances
    \/ A_Start
    \/ M_HourlyTick
    \/ A_HourlySelectReturns
    \/ A_HourlyCommits
    \/ A_HourlyFails
    \/ M_DailyTick
    \/ A_DailyLinksReturn
    \/ A_DailyStatsReturn
    \/ A_DailyReferrersReturn
    \/ A_DailyCountriesReturn
    \/ A_DailyUpsertDone
    \/ A_DailyCommits
    \/ A_DailyFails

\* ===================================================================
vars == <<cvars, svars, kvars, avars, rvars, gvars, lvars>>

InitStorage == InitService /\ raw_store = <<>>

Init == InitConsumer /\ InitStorage /\ InitCrash /\ InitAggregator /\ InitRedirect /\ InitGeo /\ InitLifespan

\* The aggregator over a clicks table that holds what earlier flushes left in
\* it and does not change.
ClickTables ==
    { <<>>,
      <<[id |-> 1, link_id |-> "L1", clicked_at |-> 4300, ip_address |-> "8.8.8.8",
         referrer |-> "B", country |-> "US", city |-> "None"]>> }

InitScheduler ==
    /\ InitConsumer /\ InitService /\ InitCrash /\ InitAggregator /\ InitRedirect /\ InitGeo /\ InitLifespan
    /\ raw_store \in ClickTables

SchedulerNext ==
    \/ A_Start
    \/ A_HourlyTick
    \/ A_HourlySelectReturns
    \/ A_HourlyCommits
    \/ A_HourlyFails
    \/ A_DailyTick
    \/ A_DailyLinksReturn
    \/ A_DailyStatsReturn
    \/ A_DailyReferrersReturn
    \/ A_DailyCountriesReturn
    \/ A_DailyUpsertDone
    \/ A_DailyCommits
    \/ A_DailyFails
    \/ A_LoopCancelled
    \/ A_StopBegin
    \/ A_StopAwaitsDaily
    \/ A_StopEnds

SpecScheduler == InitScheduler /\ [][SchedulerNext]_vars

\* The three components of the service, each followed from construction while
\* the other two are as constructed: none of them reads or writes the state
\* of another's tasks.
L_Consumer == InitService /\ InitAggregator /\ ConsumerNext
L_Storage == InitConsumer /\ InitAggregator /\ StorageNext
L_Aggregator == InitConsumer /\ InitService /\ SchedulerNext

\* The storage service with start() and stop() called around events that
\* need no lookup.
U_StoreClick == (\E c \in Callers : StoreClick(c, "none")) /\ UNCHANGED notStorage
U_StorageNext ==
    \/ U_StoreClick
    \/ S_TimerFire
    \/ S_LockGranted
    \/ S_InsertEnds
    \/ S_Start
    \/ S_StopBegin
    \/ S_TimerCancelled
    \/ S_StopFlush
U_Storage == InitConsumer /\ InitAggregator /\ U_StorageNext

\* start() and stop() of each component, the other two as constructed.
StartStopNext ==
    \/ L_Consumer
    \/ U_Storage
    \/ L_Aggregator

LifecycleNext ==
    \/ L_Consumer
    \/ L_Storage
    \/ L_Aggregator

SpecLifecycle == InitScheduler /\ [][LifecycleNext]_vars

\* The writers and the readers of the clicks table, each followed from
\* construction over a table that already holds a row.
InitTable ==
    /\ InitConsumer /\ InitService /\ InitCrash /\ InitAggregator /\ InitRedirect /\ InitGeo /\ InitLifespan
    /\ raw_store \in ClickTables \ {<<>>}

TableNext ==
    \/ L_Storage
    \/ L_Aggregator

SpecTable == InitTable /\ [][TableNext]_vars

SpecPipeline == Init /\ [][PipelineNext]_vars

SpecConsumer == Init /\ [][ConsumerNext]_vars

SpecStartStop == Init /\ [][StartStopNext]_vars

SpecLifespan == Init /\ [][LifespanNext]_vars

SpecStorage == Init /\ [][StorageNext]_vars

SpecCrash == Init /\ [][CrashNext]_vars

SpecGeo == Init /\ [][GeoNext]_vars

SpecHourly == Init /\ [][HourlyNext]_vars

SpecDaily == Init /\ [][DailyNext]_vars

SpecRollup == Init /\ [][RollupNext]_vars

\* The loop keeps ticking: its sleep ends, and the database answers.
LateFairness ==
    /\ WF_vars(T_HourlyTick)
    /\ WF_vars(A_HourlySelectReturns)
    /\ WF_vars(A_HourlyCommits)

SpecMonotone == Init /\ [][MonotoneNext]_vars

SpecLate == Init /\ [][LateNext]_vars /\ LateFairness

\* The redirect handler's requests as steps of a system in which nothing else
\* moves.
notRedirect == <<cvars, svars, kvars, avars, gvars, lvars>>

Q_RedirectBegins == (\E q \in Reqs : RedirectBegins(q)) /\ UNCHANGED notRedirect
Q_GetCachedReturns ==
    (\E q \in Reqs, err \in BOOLEAN : GetCachedReturns(q, err)) /\ UNCHANGED notRedirect
Q_GetLinkReturns == (\E q \in Reqs : GetLinkReturns(q)) /\ UNCHANGED notRedirect
Q_CacheLinkReturns ==
    (\E q \in Reqs, err \in BOOLEAN : CacheLinkReturns(q, err)) /\ UNCHANGED notRedirect
Q_IncrementReturns ==
    (\E q \in Reqs, ok \in BOOLEAN : IncrementReturns(q, ok)) /\ UNCHANGED notRedirect
Q_PublishRuns == (\E q \in Reqs : PublishRuns(q)) /\ UNCHANGED notRedirect
Q_PublishEnds ==
    (\E q \in Reqs, out \in {"ok", "RedisError", "Exception"} : PublishEnds(q, out))
    /\ UNCHANGED notRedirect
Q_LinkExpires == LinkExpires /\ UNCHANGED notRedirect

RedirectNext ==
    \/ Q_RedirectBegins
    \/ Q_GetCachedReturns
    \/ Q_GetLinkReturns
    \/ Q_CacheLinkReturns
    \/ Q_IncrementReturns
    \/ Q_PublishRuns
    \/ Q_PublishEnds
    \/ Q_LinkExpires

\* The redirect path for a short code whose row is any of LinkRows.
InitLinks ==
    /\ InitConsumer /\ InitStorage /\ InitCrash /\ InitAggregator /\ InitRequests /\ InitGeo /\ InitLifespan
    /\ r_link \in LinkRows

SpecRedirect == InitLinks /\ [][RedirectNext]_vars

\* ------------------------------------------------------------ consumer claims
\* The claim's precondition, stated on the payload: the text is not JSON, or a
\* required field of ClickEvent is missing or of the wrong type.
Undecodable(data) ==
    \/ ~data.json
    \/ data.link_id # "uuid"
    \/ data.short_code # "str"

EndedCalls(calls) == \A i \in 1..Len(calls) : calls[i].out \in {"ok", "raise"}

C2_MalformedRejected ==
    /\ [](c_delivered > 0 /\ Undecodable(c_cur) =>
            c_invoked = <<>> /\ c_task # "handler")
    /\ [][c_delivered' = c_delivered + 1 /\ Undecodable(c_cur') =>
            /\ c_events_failed' = c_events_failed + 1
            /\ c_events_processed' = c_events_processed
            /\ c_last'.n = c_delivered'
            /\ c_last'.result = "failed"
            /\ c_last'.invoked = <<>>
            /\ c_task' = "listen"]_vars

\* C2 witness: with a handler registered, two malformed messages in a row were
\* rejected, the second a JSON text without a valid short code.
C2_Witness ==
    /\ c_handlers # <<>>
    /\ c_last.n = 2
    /\ c_events_failed = 2
    /\ c_cur.json /\ c_cur.link_id = "uuid" /\ c_cur.short_code = "absent"
    /\ c_task = "listen"

C4_TransportErrorFatal ==
    /\ [](c_error => c_task = "failed")
    /\ [][c_task = "failed" =>
            /\ c_delivered' = c_delivered
            /\ c_events_processed' = c_events_processed
            /\ c_events_failed' = c_events_failed
            /\ \/ c_task' = "failed" /\ c_starts' = c_starts /\ c_pubsub' = c_pubsub
               \/ ~c_running /\ c_stop_result = "raised" /\ c_starts' = c_starts + 1]_vars

\* C4 witness: the loop task has ended with a transport error while the broker
\* still has messages to deliver and the consumer still counts as running.
C4_Witness ==
    /\ c_task = "failed"
    /\ c_error
    /\ c_running
    /\ c_delivered \in 1..(MaxMsgs - 1)

\* C5: stop() drains the message in flight: when stop() has returned, the
\* loop task has exited and the latest message handed to processing was
\* processed to its end, every registered handler having been invoked for it.
C5_StopDrains ==
    (c_owner = "idle" /\ c_stop_result = "returned") =>
        /\ c_task = "none"
        /\ c_delivered > 0 =>
              /\ c_last.n = c_delivered
              /\ c_last.result \in {"processed", "failed"}
              /\ c_last.result = "processed" =>
                    HandlerIdsOf(c_last.invoked) = c_last.handlers

\* ------------------------------------------------------------- storage claims
Rows(seq) == {seq[i] : i \in 1..Len(seq)}

\* Every record held anywhere: the buffer, the snapshots in flight, the store.
Held ==
    s_buffer \o s_snap["c1"] \o s_snap["timer"] \o s_snap["stop"] \o raw_store

\* The coroutine a takes its snapshot in this step.
StartsInsert(a) == s_pc[a] # "insert" /\ s_pc'[a] = "insert"
\* The bulk insert of coroutine a commits in this step.
InsertCommits(a) ==
    s_pc[a] = "insert" /\ s_pc'[a] # "insert"
    /\ s_batches_flushed' = s_batches_flushed + 1

\* The locations store_click may record for an event: the backend's answer for
\* a public address, or empty.
AllowedLocs(event) ==
    IF event.ip_address = "none" \/ event.ip_address = "10.0.0.1"
    THEN {EmptyLoc} ELSE {EmptyLoc, BackendLoc}

\* C6: store_click followed by a flush that succeeds leaves exactly one row for
\* the event: no record is ever held twice (in the buffer, a snapshot or the
\* store), every held record carries its event's fields and a location that is
\* the lookup's or empty, store_click puts the record into the buffer or the
\* snapshot of its own flush, a flush takes the whole buffer, and a flush that
\* succeeds adds exactly its snapshot to the store.
C6_ExactlyOneRow ==
    /\ [](/\ \A i, j \in 1..Len(Held) : Held[i].id = Held[j].id => i = j
          /\ \A r \in Rows(Held) :
                /\ r.id \in 1..Len(s_events)
                /\ r.ip_address = s_events[r.id].ip_address
                /\ [country |-> r.country, city |-> r.city]
                       \in AllowedLocs(s_events[r.id]))
    /\ [][/\ s_accepted' # s_accepted =>
               \E r \in Rows(s_buffer') \cup Rows(s_snap'["c1"]) :
                   s_accepted' = s_accepted \cup {r.id}
          /\ \A a \in Actors :
               /\ StartsInsert(a) =>
                     /\ Rows(s_buffer) \subseteq Rows(s_snap'[a])
                     /\ s_buffer' = <<>>
               /\ InsertCommits(a) => raw_store' = raw_store \o s_snap[a]]_vars

\* C6 witness: stop() has returned after a final flush that succeeded, and the
\* store holds a row with the backend's location and a row with an empty one.
C6_Witness ==
    /\ s_stop_report.returned
    /\ s_stop_report.final = "ok"
    /\ \E r \in Rows(raw_store) : r.country = "US"
    /\ \E r \in Rows(raw_store) : r.country = "None" /\ r.ip_address = "8.8.8.8"

\* C7: the store_click call whose append brings the buffer to the batch size
\* B starts one bulk insert of the whole buffer in that same call, the timer
\* not being involved, and returns when that insert has ended; a call whose
\* append leaves the buffer shorter than B starts no insert.
C7_SizeTrigger ==
    /\ [](\A c \in Callers : s_pc[c] = "insert" => Len(s_snap[c]) >= BatchSize)
    /\ [][\A c \in Callers :
            /\ s_accepted' # s_accepted =>
                 IF Len(s_buffer) + 1 >= BatchSize
                 THEN /\ s_pc'[c] = "insert"
                      /\ Len(s_snap'[c]) = Len(s_buffer) + 1
                      /\ s_buffer' = <<>>
                      /\ s_pc'["timer"] = s_pc["timer"]
                 ELSE /\ s_pc'[c] = "idle"
                      /\ Len(s_buffer') = Len(s_buffer) + 1
                      /\ s_snap' = s_snap
            /\ (s_pc[c] = "insert" /\ s_pc'[c] # "insert") => s_pc'[c] = "idle"]_vars

\* C7 witness: with nothing flushed before, a store_click call is inside the
\* bulk insert of exactly B records while the timer sleeps.
C7_Witness ==
    /\ s_pc["c1"] = "insert"
    /\ Len(s_snap["c1"]) = BatchSize
    /\ s_pc["timer"] = "sleep"
    /\ s_batches_flushed = 0
    /\ s_failures = 0
    /\ raw_store = <<>>

C9_FailedFlushRebuffers ==
    [][/\ s_failures' = s_failures + 1 =>
            \E a \in Actors :
                /\ s_pc[a] = "insert"
                /\ s_buffer' = s_snap[a]
                /\ raw_store' = raw_store
                /\ s_clicks_stored' = s_clicks_stored
                /\ s_batches_flushed' = s_batches_flushed
       /\ \A a \in Actors :
            (StartsInsert(a) /\ s_failures > 0 /\ Rows(s_last_failed) \subseteq Rows(s_buffer))
                => Rows(s_last_failed) \subseteq Rows(s_snap'[a])]_vars

\* C9 witness: a bulk insert of B records failed and a later flush stored them.
C9_Witness ==
    /\ s_failures = 1
    /\ Len(s_last_failed) = BatchSize
    /\ RowIds(s_last_failed) \subseteq RowIds(raw_store)

\* C10: when stop() of a started service has returned and the store refused no
\* insert, every record store_click had appended is in the store and the
\* buffer is empty.
C10_StopLosesNothing ==
    (s_stop_report.returned /\ s_failures = 0) =>
        /\ s_stop_report.missing = {}
        /\ s_stop_report.buffer = <<>>

\* --------------------------------------------------------------- crash claims
\* C11: when the process is killed without stop(), the records that were in
\* the in-memory buffer at that moment are absent from the raw store after the
\* restart, and stay absent; the kill leaves the raw store holding exactly the
\* rows of the bulk inserts that had committed (the insert in flight, if the
\* database committed it, included), and the restarted service starts from an
\* empty buffer.
C11_CrashLosesBuffer ==
    [][/\ s_lost' \cap RowIds(raw_store') = {}
       /\ s_crashes' # s_crashes =>
             /\ s_buffer' = <<>>
             /\ \/ raw_store' = raw_store
                \/ \E a \in Actors : /\ s_pc[a] = "insert"
                                     /\ raw_store' = raw_store \o s_snap[a]]_vars

\* C11 witness: a record was in the buffer when the process was killed, and
\* the restarted process has since committed a record accepted after it.
C11_Witness ==
    /\ s_crashes = 1
    /\ s_lost # {}
    /\ \E i \in RowIds(raw_store) : \A j \in s_lost : i > j

\* ------------------------------------------------------------ aggregator claims
\* A run of job j completes in this step.
RunCompletes(j) == a_runs'[j] = a_runs[j] + 1

\* C12: the hourly job is idempotent: when no click was added to the raw store
\* between the reads of two consecutive completed runs, the second run leaves
\* every HourlyStat row as the first run wrote it.
C12_HourlyIdempotent ==
    [][RunCompletes("hourly") /\ a_read'["hourly"] = a_prev["hourly"] =>
          a_hourly' = a_hourly]_vars

\* C12 witness: two hourly runs have completed on the same, non-empty table
\* and the second one committed upserts.
C12_Witness ==
    /\ a_runs["hourly"] = 2
    /\ a_read["hourly"] = a_prev["hourly"]
    /\ a_ret["hourly"] >= 1
    /\ a_hourly # NoTable

\* C13: the daily job is idempotent: when no click was added to the raw store
\* from the first read of a completed run to the end of the next completed run,
\* the second run leaves every DailyStat row as the first run wrote it, the
\* order of its top lists included.
C13_DailyIdempotent ==
    [][RunCompletes("daily") /\ Len(raw_store) = a_prev["daily"] =>
          a_daily' = a_daily]_vars

\* The position of the first click among sel whose column col is v.
FirstSeen(store, sel, col, v) ==
    CHOOSE i \in sel : /\ store[i][col] = v
                       /\ \A j \in sel : store[j][col] = v => i <= j

\* What the claim asks of a top list computed over the clicks sel.
TopListAsSpecified(list, store, sel, col, skip) ==
    LET groups == {store[i][col] : i \in sel} \ skip
        cnt(v) == Cardinality({i \in sel : store[i][col] = v})
        first(v) == FirstSeen(store, sel, col, v)
        names == {list[i].name : i \in 1..Len(list)}
    IN /\ Len(list) <= TopN
       /\ \A i \in 1..Len(list) :
             /\ list[i].name \in groups
             /\ list[i].count = cnt(list[i].name)
       /\ \A i, j \in 1..Len(list) :
             i < j => \/ list[i].count > list[j].count
                      \/ /\ list[i].count = list[j].count
                         /\ first(list[i].name) < first(list[j].name)
       /\ \A v \in groups \ names :
             \A i \in 1..Len(list) :
                \/ cnt(v) < list[i].count
                \/ cnt(v) = list[i].count /\ first(list[i].name) < first(v)

\* C14: each top list the daily job computes has at most N entries, is sorted
\* by count descending, leaves out no value with a count higher than one it
\* includes, holds no null or empty referrer, and orders values of equal count
\* by first-seen order, at the cutoff too.
C14_TopListOrdered ==
    [][/\ a_task["daily"] = "referrers" /\ a_task'["daily"] = "countries" =>
            TopListAsSpecified(a_drefs', raw_store,
                               ClicksOn(raw_store, DailyLink, DailyDate),
                               "referrer", {"None", ""})
       /\ a_task["daily"] = "countries" /\ a_task'["daily"] = "upsert" =>
            TopListAsSpecified(a_dctry', raw_store,
                               ClicksOn(raw_store, DailyLink, DailyDate),
                               "country", {"None"})]_vars

\* C15: in every state, under any interleaving of committed flushes and
\* aggregation runs, the click_count of each HourlyStat row is at most the
\* number of raw rows of its link in its hour, the click_count of each
\* DailyStat row is at most the number of raw rows of its link on its date,
\* and unique_visitors is at most click_count.
C15_RollupWithinRaw ==
    /\ \A k \in DOMAIN a_hourly :
          /\ a_hourly[k].click_count
                <= Cardinality(ClicksOf(raw_store, k[1], k[2], k[2] + 60))
          /\ a_hourly[k].unique_visitors <= a_hourly[k].click_count
    /\ \A k \in DOMAIN a_daily :
          /\ a_daily[k].click_count
                <= Cardinality(ClicksOf(raw_store, k[1], k[2] * 1440,
                                        (k[2] + 1) * 1440))
          /\ a_daily[k].unique_visitors <= a_daily[k].click_count

\* C15 witness: a flush committed a click of a key after the run that wrote
\* the key's row, which now counts fewer clicks than the raw store holds.
C15_Witness ==
    \/ \E k \in DOMAIN a_hourly :
          a_hourly[k].click_count
             < Cardinality(ClicksOf(raw_store, k[1], k[2], k[2] + 60))
    \/ \E k \in DOMAIN a_daily :
          a_daily[k].click_count
             < Cardinality(ClicksOf(raw_store, k[1], k[2] * 1440, (k[2] + 1) * 1440))

\* C16: a run that finds no click in its window (none at or after start_time
\* for the hourly job, none on or after start_date for the daily job) writes
\* nothing and returns 0.
C16_EmptyRunWritesNothing ==
    [][/\ ( /\ RunCompletes("hourly")
            /\ \A i \in 1..a_read'["hourly"] : raw_store[i].clicked_at < a_hstart )
          => a_hourly' = a_hourly /\ a_ret'["hourly"] = 0
       /\ ( /\ RunCompletes("daily")
            /\ \A i \in 1..a_read'["daily"] :
                  DateOf(raw_store[i].clicked_at) < a_dstart )
          => a_daily' = a_daily /\ a_ret'["daily"] = 0]_vars

\* C16 witness: the clicks table is not empty, the hourly job has written a
\* row in an earlier run, and the last run of each job found every click older
\* than its window and returned 0.
C16_Witness ==
    /\ raw_store # <<>>
    /\ a_hourly # NoTable
    /\ a_ret["hourly"] = 0
    /\ a_ret["daily"] = 0
    /\ \A i \in 1..Len(raw_store) :
          /\ raw_store[i].clicked_at < a_hstart
          /\ DateOf(raw_store[i].clicked_at) < a_dstart

\* A run of job j raises an Exception in this step.
RunFails(j) ==
    /\ a_task[j] \in InRun(j)
    /\ ~a_cancel[j]
    /\ a_task'[j] \notin InRun(j)
    /\ ~RunCompletes(j)

OtherJob(j) == IF j = "hourly" THEN "daily" ELSE "hourly"

\* C17: an exception raised inside a scheduled run does not end the job's
\* loop: while the aggregator is running the loop is back in its sleep, from
\* which the next tick starts the same job again; and the step leaves the
\* other job's loop where it is, neither stopped nor cancelled.
C17_FailedRunKeepsLoops ==
    [][\A j \in Jobs :
          RunFails(j) =>
             /\ a_running => a_task'[j] = "sleep" /\ ~a_cancel'[j]
             /\ a_task'[OtherJob(j)] = a_task[OtherJob(j)]
             /\ a_cancel'[OtherJob(j)] = a_cancel[OtherJob(j)]
             /\ a_runs'[OtherJob(j)] = a_runs[OtherJob(j)]]_vars

\* C17 witness: the last hourly run raised and the next tick has started the
\* hourly job again, while the daily job is in a run of its own.
C17_Witness ==
    /\ a_running
    /\ a_failed["hourly"]
    /\ a_task["hourly"] = "select"
    /\ a_task["daily"] \in DailyInRun

\* C20: when stop() has returned, the component's background tasks have
\* ended, and nothing of theirs starts until the next start(): the consumer
\* processes no further message, the storage timer starts no flush, the
\* aggregator starts no run.
C20_StopAwaitsTasks ==
    [][/\ c_stop_result' = "returned" => c_task' = "none"
       /\ c_stop_result = "returned" /\ c_stop_result' = "returned" =>
             UNCHANGED <<c_delivered, c_events_processed, c_events_failed, c_last>>
       /\ s_stop_report'.returned =>
             s_pc'["timer"] = "none" /\ s_snap'["timer"] = <<>>
       /\ a_stop' = "idle" /\ ~a_running' =>
             \A j \in Jobs : a_task'[j] = "none" /\ ~a_cancel'[j]
       /\ a_stop = "idle" /\ ~a_running /\ ~a_running' =>
             UNCHANGED <<a_runs, a_read, a_hourly, a_daily>>]_vars

\* C20 witness: a component that was started and had work under way has
\* returned from stop(): the consumer after delivering a message, the storage
\* service after its timer flushed a record, the aggregator after a run.
C20_Witness ==
    \/ c_stop_result = "returned" /\ c_delivered > 0
    \/ s_stop_report.returned /\ raw_store # <<>> /\ s_batches_flushed > 0
    \/ /\ a_stop = "idle" /\ ~a_running
       /\ a_runs["hourly"] > 0 /\ a_runs["daily"] > 0

\* C18: when an hourly run completes, its window starts on an hour boundary,
\* and every link and hour of the window that had a click when the run read
\* the raw store has a HourlyStat row whose click_count is the number of the
\* link's clicks in that whole hour and whose unique_visitors is the number of
\* distinct client addresses among them.
C18_HourlyCountsWholeHours ==
    [][RunCompletes("hourly") =>
          LET read == SubSeq(raw_store, 1, a_read'["hourly"])
          IN /\ HourTrunc(a_hstart) = a_hstart
             /\ \A i \in 1..Len(read) :
                   read[i].clicked_at >= a_hstart =>
                      LET l == read[i].link_id
                          h == HourTrunc(read[i].clicked_at)
                          sel == ClicksOf(read, l, h, h + 60)
                      IN /\ <<l, h>> \in DOMAIN a_hourly'
                         /\ a_hourly'[<<l, h>>].click_count = Cardinality(sel)
                         /\ a_hourly'[<<l, h>>].unique_visitors
                               = Cardinality(DistinctIps(read, sel))]_vars

\* C18 witness: a run has written the row of link L1 for the hour from 23:00
\* of day 2, which holds two clicks of one address, at 23:00 and at 23:40.
C18_Witness ==
    /\ a_ret["hourly"] >= 1
    /\ <<"L1", 4260>> \in DOMAIN a_hourly
    /\ a_hourly[<<"L1", 4260>>] = [click_count |-> 2, unique_visitors |-> 1]

\* C19: when a daily run completes, every link and date from today - days_back
\* through today that had a click when the run first read the raw store has a
\* DailyStat row, whose click_count is the number of the link's clicks on that
\* date (no fewer than the run's first read found, no more than the store
\* holds now: the same number when no click of that key was committed during
\* the run); and for a date on which the link has no click no row is written
\* or changed.
C19_DailyCountsDates ==
    [][RunCompletes("daily") =>
          LET read == SubSeq(raw_store, 1, a_read'["daily"])
          IN \A l \in Links, d \in a_dstart..(a_dstart + DaysBack) :
                LET k == <<l, d>>
                    before == Cardinality(ClicksOf(read, l, d * 1440, (d + 1) * 1440))
                    now == Cardinality(ClicksOf(raw_store, l, d * 1440, (d + 1) * 1440))
                IN /\ before >= 1 =>
                        /\ k \in DOMAIN a_daily'
                        /\ a_daily'[k].click_count >= before
                        /\ a_daily'[k].click_count <= now
                   /\ now = 0 =>
                        /\ k \in DOMAIN a_daily' <=> k \in DOMAIN a_daily
                        /\ k \in DOMAIN a_daily => a_daily'[k] = a_daily[k]]_vars

\* C19 witness: a daily run on day 3 has written the row of link L1 for day 2,
\* on which the link has two clicks, and no row for day 3, on which it has
\* none.
C19_Witness ==
    /\ a_ret["daily"] >= 1
    /\ a_dstart = 1
    /\ <<"L1", 2>> \in DOMAIN a_daily
    /\ a_daily[<<"L1", 2>>].click_count = 2
    /\ <<"L1", 3>> \notin DOMAIN a_daily

\* ------------------------------------------------------------- redirect claims
\* C21: the publish of the click event is fire-and-forget.  A request answered
\* with 404 or 410 has no publish task and no publish call; a request answered
\* with 307 has had exactly one publish call, and no request ever has more than
\* one; a request that passed the checks is answered with 307 whatever state
\* its publish task is in (with 500 only when the click-count update raised);
\* and no step of a publish task, whether it succeeds or fails, changes the
\* response of its request or where the handler is.
C21_FireAndForget ==
    [][\A q \in Reqs :
          /\ r_resp'[q] \in {404, 410} => r_pub'[q] = "none" /\ r_calls'[q] = 0
          /\ r_resp'[q] = 307 => r_calls'[q] = 1
          /\ r_calls'[q] <= 1
          /\ r_pub'[q] # "none" /\ r_pc'[q] = "done" => r_resp'[q] \in {307, 500}
          /\ r_pub[q] # "none" /\ r_pub'[q] # r_pub[q] =>
                r_resp'[q] = r_resp[q] /\ r_pc'[q] = r_pc[q]]_vars

\* C21 witness: one request was answered with 307 although its publish
\* failed, another while its publish is still in flight.
C21_Witness ==
    /\ r_resp[1] = 307 /\ r_pub[1] = "failed"
    /\ r_resp[2] = 307 /\ r_pub[2] = "publishing"

\* ------------------------------------------------------------- lookup claims
\* The addresses of the private and loopback ranges: RFC 1918 and 127/8 for
\* IPv4, ::1 and the unique local range fc00::/7 (RFC 4193) for IPv6.
InPrivateRange(ip) == ip \in {"10.0.0.1", "fd00::1"}

\* Where the record of event id is once store_click is past the lookup: in the
\* buffer, in the snapshot of the caller's own flush, or with the caller while
\* it waits for the buffer lock.
RecordsPastLookup(c) ==
    Rows(s_buffer') \cup Rows(s_snap'[c])
        \cup (IF s_pc'[c] = "wait_lock" THEN {s_data'[c]} ELSE {})

\* C22: the lookup never raises to store_click.  For a missing address and for
\* an address of a private or loopback range store_click goes on to the buffer
\* without a backend call, the record having no country and no city; and when
\* a backend call ends, however it ends, store_click goes on to the buffer
\* with the record, which has no country and no city when the call failed.
C22_LookupNeverRaises ==
    [][\A c \in Callers :
          /\ Len(s_events') = Len(s_events) + 1 =>
                LET e == s_events'[Len(s_events')]
                IN (e.ip_address = "none" \/ InPrivateRange(e.ip_address)) =>
                      /\ s_pc'[c] # "lookup"
                      /\ ClickData(e, EmptyLoc) \in RecordsPastLookup(c)
          /\ s_pc[c] = "lookup" /\ s_pc'[c] # "lookup" =>
                \E r \in RecordsPastLookup(c) :
                   /\ r.id = s_data[c].id
                   /\ g_geo'.out # "found" => r.country = "None" /\ r.city = "None"]_vars

\* ------------------------------------------------------------- ordering claims
\* The handler calls of calls that have not completed.
PendingCalls(calls) == {i \in 1..Len(calls) : calls[i].out = "pending"}

\* C23: the consumer processes one message at a time, in the order of
\* delivery.  A message is handed to _process_message only while the loop
\* waits in listen() with no handler call open, the message before it having
\* been processed to its end with every handler call made for it completed;
\* the processing of messages ends in the order of their delivery; and within
\* a message a handler is called only when every earlier call has returned or
\* raised, so that at most one call is open at any time.
C23_OneMessageAtATime ==
    [][/\ c_delivered' # c_delivered =>
             /\ c_delivered' = c_delivered + 1
             /\ c_task = "listen"
             /\ c_invoked = <<>>
             /\ c_delivered > 0 =>
                   /\ c_last.n = c_delivered
                   /\ PendingCalls(c_last.invoked) = {}
       /\ c_last'.n # c_last.n => c_last'.n = c_last.n + 1 /\ c_last'.n = c_delivered'
       /\ PendingCalls(c_invoked') \subseteq {Len(c_invoked')}
       /\ Len(c_invoked') > Len(c_invoked) =>
             /\ Len(c_invoked') = Len(c_invoked) + 1
             /\ PendingCalls(c_invoked) \subseteq {Len(c_invoked)}
             /\ \A i \in 1..Len(c_invoked) :
                   c_invoked'[i].h = c_invoked[i].h
                   /\ c_invoked'[i].out \in {"ok", "raise"}]_vars

\* C23 witness: the second message is inside its second handler, the first
\* handler having raised for it, after the first message was processed by both.
C23_Witness ==
    /\ c_delivered = 2
    /\ c_last.n = 1
    /\ c_last.result = "processed"
    /\ Len(c_last.invoked) = 2
    /\ c_task = "handler"
    /\ Len(c_invoked) = 2
    /\ c_invoked[1].out = "raise"

\* ------------------------------------------------------------- raw store claims
\* C24: the raw store is append-only.  Every step leaves the rows the table
\* held where they were and as they were; the table changes only when a bulk
\* insert commits, which adds exactly the rows of its snapshot at the end; and
\* no step of store_click, no failed flush and no step of an hourly or daily
\* run changes the table at all.
C24_AppendOnly ==
    [][/\ Len(raw_store') >= Len(raw_store)
       /\ SubSeq(raw_store', 1, Len(raw_store)) = raw_store
       /\ raw_store' # raw_store =>
             \E a \in Actors : /\ s_pc[a] = "insert"
                                /\ s_snap[a] # <<>>
                                /\ raw_store' = raw_store \o s_snap[a]
       /\ s_events' # s_events => raw_store' = raw_store
       /\ s_failures' # s_failures => raw_store' = raw_store
       /\ avars' # avars => raw_store' = raw_store]_vars

\* C24 witness: over a table that held a row, a flush has failed and a later
\* one has committed; or both jobs have completed a run that wrote rollup
\* rows.
C24_Witness ==
    \/ /\ s_failures > 0
       /\ s_batches_flushed > 0
       /\ Len(raw_store) >= 3
    \/ /\ a_ret["hourly"] > 0
       /\ a_ret["daily"] > 0
       /\ raw_store # <<>>

\* C25: at most one bulk insert of the buffer is in flight at any time,
\* whichever of the size trigger, the timer and the final flush of stop()
\* started it; a snapshot exists only for an insert that is in flight, and no
\* record is in the snapshots of two coroutines.
C25_OneInsertInFlight ==
    /\ \A a, b \in Actors : s_pc[a] = "insert" /\ s_pc[b] = "insert" => a = b
    /\ \A a \in Actors : s_snap[a] # <<>> => s_pc[a] = "insert"
    /\ \A a, b \in Actors : a # b => RowIds(s_snap[a]) \cap RowIds(s_snap[b]) = {}

\* C25 witness: the timer fired while the bulk insert of a size-triggered
\* flush is in flight, and waits for the lock.
C25_Witness ==
    /\ s_pc["c1"] = "insert"
    /\ s_pc["timer"] = "wait_lock"
    /\ Len(s_snap["c1"]) >= BatchSize

\* ------------------------------------------------------------- run claims
\* C26: aggregate_daily returns the number of DailyStat rows it upserted: when
\* a daily run completes, the count it returns is the number of (link, date)
\* keys for which the run executed an upsert.
C26_DailyReturnsUpserts ==
    [][RunCompletes("daily") => a_ret'["daily"] = Cardinality(DOMAIN a_dpend)]_vars

\* C27: scheduled runs of one job never overlap: each job has at most one run
\* begun and not ended, which is the run its loop task is inside, and a run
\* begins only from the sleep of its loop, after the run before it returned or
\* raised; the two jobs do not exclude each other.
C27_RunsDoNotOverlap ==
    [][\A j \in Jobs :
          /\ a_active'[j] \in {0, 1}
          /\ a_active'[j] = 1 <=> a_task'[j] \in InRun(j)
          /\ a_active'[j] > a_active[j] => a_task[j] = "sleep" /\ a_active[j] = 0]_vars

\* C27 witness: an hourly run and a daily run are in progress at the same
\* time, each after an earlier run of its job, one that returned and one that
\* raised.
C27_Witness ==
    /\ a_active["hourly"] = 1
    /\ a_active["daily"] = 1
    /\ a_runs["hourly"] >= 1
    /\ a_failed["daily"]

\* ------------------------------------------------------------- pipeline claims
\* C28: backpressure.  While a store_click call is in progress, the bulk
\* insert of a size-triggered flush included, the consumer is suspended in the
\* handler call it made for the message; the handler call ends only when
\* store_click has returned, its insert having succeeded or failed; and the
\* next message is handed to processing only then.
C28_Backpressure ==
    [][/\ s_pc'["c1"] # "idle" =>
             /\ c_task' = "handler"
             /\ c_invoked'[Len(c_invoked')] = [h |-> StoreHandler, out |-> "pending"]
       /\ c_task = "handler" /\ c_task' # "handler" =>
             s_pc["c1"] = "idle" /\ s_snap["c1"] = <<>>
       /\ c_delivered' # c_delivered =>
             s_pc["c1"] = "idle" /\ s_snap["c1"] = <<>>]_vars

\* C28 witness: with the flush timer not started, the third message is in its
\* handler call after the store_click call of an earlier message brought the
\* buffer to the batch size and its bulk insert committed.
C28_Witness ==
    /\ ~s_running
    /\ s_pc["timer"] = "none"
    /\ Len(raw_store) = BatchSize
    /\ s_batches_flushed = 1
    /\ c_delivered = 3
    /\ c_task = "handler"

\* -------------------------------------------------------- late-arrival claims
\* The (link_id, hour) key of the i-th click, and its position among the
\* clicks of that key.
BucketOf(i) == <<raw_store[i].link_id, HourTrunc(raw_store[i].clicked_at)>>
RankInBucket(i) == Cardinality({j \in 1..i : BucketOf(j) = BucketOf(i)})

\* HourlyStat for the click's link and hour counts the click.
Counted(i) ==
    /\ i \in 1..Len(raw_store)
    /\ BucketOf(i) \in DOMAIN a_hourly
    /\ a_hourly[BucketOf(i)].click_count >= RankInBucket(i)

\* The click is in the table and its hour is inside the window as of now.
InWindow(i) ==
    /\ i \in 1..Len(raw_store)
    /\ raw_store[i].clicked_at >= HourlyWindowStart(a_now)

\* A run of the hourly job is still to read the table.
RunToCome ==
    /\ a_running
    /\ \/ a_task["hourly"] = "sleep" /\ a_runs["hourly"] < MaxRuns
       \/ a_task["hourly"] = "select"

\* C29 as stated: a click that reached the table while its hour was inside the
\* window is eventually counted by HourlyStat, the loop ticking with runs that
\* succeed; a click that reached it after its hour had left the window is
\* never counted.
C29_LateArrivalsAbsorbed ==
    /\ \A i \in 1..MaxClicks :
          (i \in 1..Len(raw_store) /\ i \notin g_late /\ RunToCome) ~> Counted(i)
    /\ [](\A i \in g_late : ~Counted(i))

\* C29 amended: a click in the table whose hour is inside the window is
\* eventually counted or its hour leaves the window before a run reads the
\* clock; a click in the table when the query of a run whose start_time is not
\* after its click time is pending is eventually counted; and a click becomes
\* counted only at the commit of a run whose start_time is not after its click
\* time, whenever it arrived.
C29_AbsorbedByRunInWindow ==
    /\ \A i \in 1..MaxClicks :
          (InWindow(i) /\ RunToCome) ~> (Counted(i) \/ ~InWindow(i))
    /\ \A i \in 1..MaxClicks :
          (/\ i \in 1..Len(raw_store)
           /\ a_task["hourly"] = "select"
           /\ a_hstart <= raw_store[i].clicked_at) ~> Counted(i)
    /\ [][\A i \in 1..MaxClicks :
             ~Counted(i) /\ Counted(i)' =>
                 /\ a_task["hourly"] = "commit"
                 /\ a_hstart <= raw_store'[i].clicked_at]_vars

\* C29 witness: a click committed after the first run read the table, its
\* hour then inside the window, is counted by the second run.
C29_Witness ==
    \E i \in 1..MaxClicks :
        /\ Counted(i)
        /\ i \notin g_late
        /\ a_runs["hourly"] = 2
        /\ a_prev["hourly"] < i
        /\ i <= a_read["hourly"]

\* ----------------------------------------------------------- run-count claims
\* The stats property: what the aggregator reports of its runs.
AggregatorStats ==
    [running |-> a_running,
     hourly_runs |-> a_runs["hourly"],
     daily_runs |-> a_runs["daily"]]

\* C30: hourly_runs and daily_runs increase by exactly one for each scheduled
\* run that returns without raising, and by nothing else; a run that raises
\* leaves them unchanged and is recorded in a failed-run count, so that what
\* the aggregator reports of its runs changes.
C30_FailedRunCounted ==
    [][\A j \in Jobs :
          /\ a_runs'[j] # a_runs[j] =>
                /\ a_runs'[j] = a_runs[j] + 1
                /\ a_task[j] \in InRun(j)
                /\ a_task'[j] \notin InRun(j)
                /\ ~a_failed'[j]
          /\ RunFails(j) =>
                /\ a_runs' = a_runs
                /\ AggregatorStats' # AggregatorStats]_vars

\* ---------------------------------------------------------- more storage claims
\* Coroutine a, the timer or stop(), goes through _flush_buffer in this step.
FlushesNow(a) ==
    /\ a \in {"timer", "stop"}
    /\ \/ s_pc[a] = "sleep" /\ ~s_cancel
       \/ s_pc[a] = "wait_lock"
       \/ s_pc[a] = "await_task"
    /\ s_pc'[a] \notin {s_pc[a], "wait_lock"}

\* C31: a flush of an empty buffer is a no-op: no bulk insert begins, and the
\* buffer, the raw store, clicks_stored and batches_flushed are unchanged;
\* batches_flushed and clicks_stored change only at the end of a bulk insert
\* that succeeded, by one and by the length of the batch, which is not empty.
C31_EmptyFlushNoOp ==
    [][/\ \A a \in Actors :
             FlushesNow(a) /\ s_buffer = <<>> =>
                 /\ s_pc'[a] = AfterFlush(a)
                 /\ UNCHANGED <<s_buffer, s_snap, raw_store, s_clicks_stored,
                                s_batches_flushed>>
       /\ \A a \in Actors : s_pc'[a] = "insert" => s_snap'[a] # <<>>
       /\ s_batches_flushed' # s_batches_flushed \/ s_clicks_stored' # s_clicks_stored =>
             \E a \in Actors :
                 /\ s_pc[a] = "insert" /\ s_pc'[a] # "insert"
                 /\ raw_store' = raw_store \o s_snap[a]
                 /\ s_batches_flushed' = s_batches_flushed + 1
                 /\ s_clicks_stored' = s_clicks_stored + Len(s_snap[a])
                 /\ Len(s_snap[a]) > 0]_vars

\* C31 witness: after a batch was flushed, stop() has returned from a final
\* flush that found the buffer empty.
C31_Witness ==
    /\ s_stop_report.returned
    /\ s_stop_report.final = "empty"
    /\ s_batches_flushed = 1
    /\ s_clicks_stored = BatchSize
    /\ Len(raw_store) = BatchSize

\* --------------------------------------------------------- more consumer claims
\* Data messages whose processing has ended.
ProcessingEnded == c_delivered - (IF c_task = "handler" THEN 1 ELSE 0)

\* C32: the consumer's counters partition the data messages handed to
\* processing: events_processed plus events_failed is the number of those
\* whose processing has ended, a step adds at most one to their sum, and a
\* step that hands no data message to processing and ends no handler call (a
\* subscription confirmation among them) changes neither counter and calls
\* no handler.
C32_CountersPartition ==
    [][/\ c_events_processed' + c_events_failed' = ProcessingEnded'
       /\ c_events_processed' >= c_events_processed
       /\ c_events_failed' >= c_events_failed
       /\ (c_events_processed' + c_events_failed')
             - (c_events_processed + c_events_failed) \in {0, 1}
       /\ c_delivered' = c_delivered /\ c_task # "handler" =>
             /\ c_events_processed' = c_events_processed
             /\ c_events_failed' = c_events_failed
             /\ c_task' # "handler"
             /\ c_invoked' = <<>>]_vars

\* The is_running property, and the status health_check derives from it.
IsRunning == c_running
HealthStatus == IF IsRunning THEN "healthy" ELSE "degraded"

\* C33: is_running, and with it the status of the health endpoint, is true
\* only while the receive loop task is alive: in every state where it is
\* true the task is in listen() or in a handler, and once a transport error
\* has terminated the loop the health endpoint answers "degraded".
C33_RunningTracksLoop ==
    /\ IsRunning => c_task \in {"listen", "handler"}
    /\ c_task = "failed" => ~IsRunning /\ HealthStatus = "degraded"

\* C34: stop() completes its cleanup in every state: whenever a stop() call of
\* a running consumer has ended, the receive loop having been cancelled or
\* having terminated with a transport error before, it has returned without
\* raising and the task, the subscription and the client are closed and
\* cleared.
C34_StopAlwaysCleansUp ==
    (c_owner = "idle" /\ c_stop_result # "none") =>
        /\ c_stop_result = "returned"
        /\ ~c_running
        /\ c_task = "none"
        /\ c_pubsub = "none"
        /\ c_client = "none"

\* C35: conservation of records in batch mode: in every state every record
\* store_click has appended to the buffer is in exactly one of the buffer, the
\* snapshot of a bulk insert in flight and the raw store, and clicks_stored
\* is the number of rows inserted into the raw store.
C35_Conservation ==
    /\ \A id \in s_accepted :
          Cardinality({i \in 1..Len(Held) : Held[i].id = id}) = 1
    /\ s_clicks_stored = Len(raw_store)

\* C36: whenever the buffer lock is free the pending-clicks gauge is the
\* length of the buffer: the new length after an append, 0 after a flush that
\* succeeded, and the restored length after a flush that failed.
C36_GaugeIsBufferLength ==
    [][/\ s_lock' = "free" => s_pending' = Len(s_buffer')
       /\ s_accepted' # s_accepted /\ s_lock' = "free" =>
             s_pending' = Len(s_buffer) + 1
       /\ \A a \in Actors :
             /\ InsertCommits(a) => s_pending' = 0
             /\ s_pc[a] = "insert" /\ s_failures' # s_failures =>
                   s_pending' = Len(s_buffer) + Len(s_snap[a])]_vars

\* C36 witness: a bulk insert of a full batch has failed, the lock is free and
\* the gauge is the length of the buffer the batch was put back into.
C36_Witness ==
    /\ s_failures = 1
    /\ s_lock = "free"
    /\ s_buffer = s_last_failed
    /\ s_pending = BatchSize

\* ------------------------------------------------------------ start and stop
\* The tasks that are alive: the receive loop, the flush timer, a job's loop.
LoopAlive == c_task \in {"listen", "handler"}
TimerAlive == s_pc["timer"] \in {"sleep", "wait_lock", "insert"}
JobAlive(j) == a_task[j] \in {"sleep"} \cup InRun(j)

\* C37: start() and stop() are idempotent.  A task or a subscription is
\* created only by a start() on a component that is not running and has no
\* task alive, one per loop, so that no component ever has two; stop() goes
\* beyond its first test only on a running component; and while a component
\* is not running and no stop() is under way, nothing but a start() changes
\* its task, its subscription or its client.
C37_StartStopIdempotent ==
    [][/\ c_starts' # c_starts =>
             /\ c_starts' = c_starts + 1
             /\ ~c_running /\ ~LoopAlive /\ c_owner = "idle"
       /\ ~LoopAlive /\ LoopAlive' => c_starts' = c_starts + 1 /\ c_running'
       /\ c_owner = "idle" /\ c_owner' # "idle" => c_running
       /\ ~c_running /\ ~c_running' /\ c_owner = "idle" =>
             UNCHANGED <<c_task, c_pubsub, c_client, c_owner>>
       /\ ~TimerAlive /\ TimerAlive' =>
             ~s_running /\ s_running' /\ s_pc["stop"] = "idle"
       /\ ~s_running /\ s_running' => ~TimerAlive
       /\ s_pc["stop"] = "idle" /\ s_pc'["stop"] # "idle" => s_running
       /\ ~s_running /\ ~s_running' /\ s_pc["stop"] = "idle" =>
             s_pc'["timer"] = s_pc["timer"] /\ s_pc'["stop"] = "idle"
       /\ \A j \in Jobs :
             /\ ~JobAlive(j) /\ JobAlive(j)' =>
                   ~a_running /\ a_running' /\ a_stop = "idle"
             /\ ~a_running /\ a_running' => ~JobAlive(j)
       /\ a_stop = "idle" /\ a_stop' # "idle" => a_running
       /\ ~a_running /\ ~a_running' /\ a_stop = "idle" =>
             UNCHANGED <<a_task, a_stop>>]_vars

\* C37 witness: the consumer, started, stopped and started again, has its one
\* receive loop alive and in a handler.
C37_Witness ==
    /\ c_starts = 2
    /\ c_running
    /\ c_owner = "idle"
    /\ c_task = "handler"

\* ------------------------------------------------------------ lifespan claims
\* C38: lifecycle ordering.  The consumer is started only when the storage
\* service is started and the storage handler registered, and a message is
\* handed to processing only then; stop() of the storage service begins only
\* when stop() of the consumer has returned, the receive loop having ended
\* and no store_click call being in progress; and from then on no record is
\* appended to the buffer.
C38_LifecycleOrdering ==
    [][/\ c_starts' # c_starts => s_running /\ c_handlers = <<StoreHandler>>
       /\ c_delivered' # c_delivered => s_running /\ c_handlers = <<StoreHandler>>
       /\ s_running /\ ~s_running' =>
             /\ ~LoopAlive
             /\ c_stop_result = "returned"
             /\ s_pc["c1"] = "idle"
       /\ ~s_running /\ l_pc.phase \in {"shutdown", "closed"} =>
             s_accepted' = s_accepted /\ s_events' = s_events]_vars

\* C38 witness: the service has shut down after an event was processed, and
\* the final flush of the storage service stored what the buffer held.
C38_Witness ==
    /\ l_pc.phase = "closed"
    /\ c_events_processed > 0
    /\ s_stop_report.returned
    /\ s_stop_report.final = "ok"
    /\ s_stop_report.missing = {}

\* ---- C39
\* The table `new` is the table `old` with every staged row written and no
\* other row touched.
WrittenTogether(old, new, staged) ==
    /\ DOMAIN new = DOMAIN old \cup DOMAIN staged
    /\ \A k \in DOMAIN staged : new[k] = staged[k]
    /\ \A k \in DOMAIN old \ DOMAIN staged : new[k] = old[k]

\* The run of job j ends in this step by a cancellation that finds it at an
\* await before its commit.
CancelledBeforeCommit(j) ==
    /\ a_cancel[j]
    /\ a_task[j] \in InRun(j) \ {"commit"}
    /\ a_task'[j] = "done"

\* C39: an aggregation run writes all or nothing.  A rollup table changes only
\* in the step that ends the commit of its own job's run, and then every row
\* the run staged is in the table together, no other row touched; a run that
\* completes has all its staged rows in the table; a run that raises, or that
\* is cancelled before its commit, leaves both rollup tables as they were.
C39_AllOrNothing ==
    [][/\ a_hourly' # a_hourly =>
             /\ a_task["hourly"] = "commit"
             /\ a_task'["hourly"] \notin InRun("hourly")
             /\ WrittenTogether(a_hourly, a_hourly', a_hrows)
       /\ a_daily' # a_daily =>
             /\ a_task["daily"] = "commit"
             /\ a_task'["daily"] \notin InRun("daily")
             /\ WrittenTogether(a_daily, a_daily', a_dpend)
       /\ RunCompletes("hourly") /\ a_task["hourly"] = "commit" =>
             WrittenTogether(a_hourly, a_hourly', a_hrows)
       /\ RunCompletes("daily") /\ a_task["daily"] = "commit" =>
             WrittenTogether(a_daily, a_daily', a_dpend)
       /\ \A j \in Jobs :
             RunFails(j) \/ CancelledBeforeCommit(j) =>
                 a_hourly' = a_hourly /\ a_daily' = a_daily]_vars

\* The last run of each job raised: the hourly one after a run that committed
\* rows, which are still in the table, the daily one over clicks, with the
\* daily table still empty.
C39_Witness ==
    /\ a_failed["hourly"] /\ a_runs["hourly"] = 1 /\ a_hourly # NoTable
    /\ a_failed["daily"] /\ a_runs["daily"] = 0 /\ a_daily = NoTable
    /\ raw_store # <<>>

\* ---- C40
\* Every row of the rollup table `old` is in `new`, its click_count not lower.
NeverBackwards(old, new) ==
    \A k \in DOMAIN old :
        k \in DOMAIN new /\ new[k].click_count >= old[k].click_count

\* C40: rollup counts never go backwards under the scheduler.  No step of a
\* scheduled run removes a row of the hourly or the daily table, and none
\* lowers the click_count of a row.
C40_CountsNeverGoBackwards ==
    [][NeverBackwards(a_hourly, a_hourly') /\ NeverBackwards(a_daily, a_daily')]_vars

\* Two runs of the hourly job have completed, the first over one click and the
\* second over two, and a row the second run rewrote counts both clicks.
C40_Witness ==
    /\ a_runs["hourly"] = 2 /\ a_prev["hourly"] = 1 /\ a_read["hourly"] = 2
    /\ \E k \in DOMAIN a_hourly : a_hourly[k].click_count = 2
====
